---- MODULE Spec2Model ----
(***************************************************************************)
(* The push-event pipeline of the Ajax integration: SSEManager of          *)
(* custom_components/ajax/sse_manager.py.  One action per delivery to      *)
(* _handle_event (normalisation, deduplication, hub lookup, category       *)
(* dispatch, handler, model-changed notification), one for the passage of  *)
(* time, and the reconciliation cycle that consults is_state_protected.    *)
(* Times are whole seconds of time.time().                                 *)
(***************************************************************************)
EXTENDS Integers, Sequences, FiniteSets, TLC

VARIABLES
    now,                \* time.time()
    recent_events,      \* SSEManager._recent_events: event_key -> timestamp
    last_state_update,  \* SSEManager._last_state_update: hub_id -> timestamp
    security_state,     \* space index -> Space.security_state
    online,             \* space index -> device index -> Device.online
    attributes,         \* space index -> device index -> Device.attributes
    pending_ha_action,  \* hubs for which coordinator.get_pending_ha_action is truthy
    refresh_tasks,      \* scheduled coordinator.async_request_refresh() tasks not yet run
    notifications,      \* audit notifications handed to _create_sqs_notification
    fired,              \* "ajax_scenario_triggered" events fired on the bus
    updated,            \* number of coordinator.async_set_updated_data calls
    reconciled,         \* the snapshots merged so far, in order
    hist,               \* one record per delivery to _handle_event, in order
    fd,                 \* the last _find_device call checked on its own
    call,               \* the _handle_event call in progress, followed step by step
    nz,                 \* the last normalisation of a payload checked on its own
    hass                \* hass.data[DOMAIN], the registered services and their calls

vars == <<now, recent_events, last_state_update, security_state, online,
          attributes, pending_ha_action, refresh_tasks, notifications, fired,
          updated, reconciled, hist, fd, call, nz, hass>>

----------------------------------------------------------------------------
(* Program constants *)

dedup_window == 5
RetentionWindow == 60
ProtectionWindow == 5
SuffixLen == 8
LongIdLen == 16

(* Bounds of the model *)

MaxDeliveries == 1
MaxDedupDeliveries == 3
MaxElapsed == 6
MaxReconciles == 1
MaxDevices == 2
MaxFaultDeliveries == 2
MaxHubDeliveries == 2
MaxRefreshDeliveries == 2
MaxUnitDeliveries == 2
MaxUnitElapsed == 2
MaxSetups == 2
MaxServiceCalls == 1

\* The clock is the epoch clock: it starts beyond every window, so the
\* default 0 of a missing timestamp is always older than the windows.
StartTime == RetentionWindow + dedup_window + ProtectionWindow

----------------------------------------------------------------------------
(* Python values *)

None == "<None>"

Falsy(v) == v = None \/ v = ""

\* dict.get(k, default)
Get(d, k, default) == IF k \in DOMAIN d THEN d[k] ELSE default

\* a or b
Or(a, b) == IF Falsy(a) THEN b ELSE a

\* d with d[k] = v
Put(d, k, v) == [x \in DOMAIN d \cup {k} |-> IF x = k THEN v ELSE d[x]]

EmptyDict == [x \in {} |-> None]

\* s.endswith(suffix)
EndsWith(s, suffix) ==
    /\ Len(s) >= Len(suffix)
    /\ SubSeq(s, Len(s) - Len(suffix) + 1, Len(s)) = suffix

\* sub in s
Contains(s, sub) ==
    \E i \in 1..(Len(s) - Len(sub) + 1) : SubSeq(s, i, i + Len(sub) - 1) = sub

\* A JSON number in a payload is written "#" followed by its digits.
IsNumber(v) == Len(v) > 0 /\ SubSeq(v, 1, 1) = "#"

\* the text an f-string gives a value
Str(v) == IF IsNumber(v) THEN SubSeq(v, 2, Len(v)) ELSE v

\* str.lower() on the tags the push channel is seen to send
Lower(s) ==
    CASE s = "DoorOpened" -> "dooropened"
      [] s = "Disarm"     -> "disarm"
      [] s = "GroupArm"   -> "grouparm"
      [] OTHER            -> s

----------------------------------------------------------------------------
(* The category tables imported from sqs_manager and the event-code parser
   imported from event_codes: a tag maps to a state, or to (label, flag). *)

EVENT_TAG_TO_STATE ==
    [arm |-> "armed", disarm |-> "disarmed", nightmodeon |-> "night_mode",
     grouparm |-> "armed", groupdisarm |-> "disarmed"]

DOOR_EVENTS ==
    [dooropened |-> <<"door_opened", TRUE>>, doorclosed |-> <<"door_closed", FALSE>>]

MOTION_EVENTS == [motiondetected |-> <<"motion_detected", TRUE>>]

SMOKE_EVENTS ==
    [smokedetected |-> <<"smoke_detected", TRUE>>,
     temperaturealarm |-> <<"high_temp_detected", TRUE>>,
     codetected |-> <<"co_detected", TRUE>>]

FLOOD_EVENTS == [leakdetected |-> <<"leak_detected", TRUE>>]

GLASS_EVENTS == [glassbreak |-> <<"glass_break_detected", TRUE>>]

TAMPER_EVENTS ==
    [tamperopened |-> <<"tamper_opened", TRUE>>, tamperclosed |-> <<"tamper_closed", FALSE>>]

DEVICE_STATUS_EVENTS ==
    [deviceoffline |-> <<"device_offline", TRUE>>,
     deviceonline |-> <<"device_online", FALSE>>,
     lowbattery |-> <<"low_battery", TRUE>>,
     externalpowerlost |-> <<"external_power_lost", TRUE>>]

RELAY_EVENTS == [relayon |-> <<"relay_on", TRUE>>, relayoff |-> <<"relay_off", FALSE>>]

SCENARIO_EVENTS == {"relayonbyscenario"}

\* the tags whose handlers take (source_name, source_id) and call _find_device
DeviceTags ==
    DOMAIN DOOR_EVENTS \cup DOMAIN MOTION_EVENTS \cup DOMAIN SMOKE_EVENTS
    \cup DOMAIN FLOOD_EVENTS \cup DOMAIN GLASS_EVENTS \cup DOMAIN TAMPER_EVENTS
    \cup DOMAIN DEVICE_STATUS_EVENTS \cup DOMAIN RELAY_EVENTS

\* parse_event_code: the structured form of a vendor code, or nothing (an
\* empty mapping, falsy like None) for an empty or unknown code.
parse_event_code(event_code) ==
    CASE event_code = "M_01_20" -> [type |-> "ALARM", transition |-> "TRIGGERED"]
      [] event_code = "M_01_21" -> [type |-> "ALARM", transition |-> "RECOVERED"]
      [] OTHER                  -> EmptyDict

----------------------------------------------------------------------------
(* coordinator.account: the spaces in the order of account.spaces.values(),
   each with its devices in the order of space.devices.values().  The ids
   and names never change under push events; security_state, online and
   attributes are the variables above. *)

Account ==
    << [hub_id |-> "H1", name |-> "Home",
        devices |-> << [id |-> "0011223344556677", name |-> "Front Door"],
                       [id |-> "AABBCCDD", name |-> "Hall"],
                       [id |-> "CCDDEEFF", name |-> "Garage"] >>],
       [hub_id |-> "H2", name |-> "Office",
        devices |-> << [id |-> "99887766", name |-> "Front Door"] >>] >>

Spaces == DOMAIN Account
DevicesOf(sp) == DOMAIN Account[sp].devices

\* the number of devices, the last of each space, that were added to the
\* account after start-up: the coordinator learns of them with the first
\* snapshot it merges
LateDevices == <<1, 0>>

\* space.devices.values() as the coordinator holds it now
space_devices(sp) ==
    IF reconciled = <<>>
    THEN SubSeq(Account[sp].devices, 1, Len(Account[sp].devices) - LateDevices[sp])
    ELSE Account[sp].devices

\* for s in account.spaces.values(): if s.hub_id == hub_id: space = s; break
\* (0 stands for None)
FindSpace(hub_id) ==
    IF \E sp \in Spaces : Account[sp].hub_id = hub_id
    THEN CHOOSE sp \in Spaces :
            /\ Account[sp].hub_id = hub_id
            /\ \A other \in Spaces : Account[other].hub_id = hub_id => sp <= other
    ELSE 0

----------------------------------------------------------------------------
(* _handle_event, lines 137-187: the canonical fields of a payload *)

\* event_data.get("event", event_data)
Unwrap(event_data) == Get(event_data, "event", event_data)

EventTag(event) == Lower(Get(event, "eventTag", ""))

HubId(event) == Get(event, "hubId", None)

\* the name of the device object taken only when the object has an id too
SourceNameBundled(event) ==
    LET device == Get(event, "device", EmptyDict)
        source == Get(event, "source", EmptyDict)
        nested == IF ~Falsy(Get(device, "name", None)) /\ ~Falsy(Get(device, "id", None))
                  THEN Get(device, "name", None)
                  ELSE Get(source, "name", None)
    IN  IF Falsy(nested)
        THEN Or(Get(event, "sourceObjectName", None), Get(event, "sourceName", ""))
        ELSE nested

SourceName(event) ==
    LET device == Get(event, "device", EmptyDict)
        source == Get(event, "source", EmptyDict)
        nested == IF ~Falsy(Get(device, "name", None))
                  THEN Get(device, "name", None)
                  ELSE Get(source, "name", None)
    IN  IF Falsy(nested)
        THEN Or(Get(event, "sourceObjectName", None), Get(event, "sourceName", ""))
        ELSE nested

SourceId(event) ==
    LET device == Get(event, "device", EmptyDict)
    IN  IF ~Falsy(Get(device, "id", None))
        THEN Get(device, "id", None)
        ELSE Or(Get(event, "sourceObjectId", None), Get(event, "deviceId", ""))

SourceType(event) ==
    LET device == Get(event, "device", EmptyDict)
        source == Get(event, "source", EmptyDict)
        nested == IF ~Falsy(Get(device, "type", None))
                  THEN Get(device, "type", None)
                  ELSE Get(source, "type", None)
    IN  IF Falsy(nested)
        THEN Or(Get(event, "sourceObjectType", None), Get(event, "sourceType", ""))
        ELSE nested

\* an unusable code gives a transition that is neither of the two
TransitionUnknownWhenUnusable(event) ==
    LET code_info == parse_event_code(Get(event, "eventCode", ""))
    IN  IF DOMAIN code_info # {}
        THEN Get(code_info, "transition", "TRIGGERED")
        ELSE "UNKNOWN"

Transition(event) ==
    LET code_info == parse_event_code(Get(event, "eventCode", ""))
    IN  IF DOMAIN code_info # {}
        THEN Get(code_info, "transition", "TRIGGERED")
        ELSE "TRIGGERED"

\* f"{source_id}:{event_tag}:{transition}"
EventKey(source_id, event_tag, transition) ==
    Str(source_id) \o ":" \o event_tag \o ":" \o transition

\* event.get("eventTag", "").lower() raises AttributeError for a null tag
TagRaises(event) == Get(event, "eventTag", "") = None

\* the malformed-payload test taken on the tag alone
IsMalformedTagOnly(event_tag, hub_id) == Falsy(event_tag)

\* if not event_tag or not hub_id: return
IsMalformed(event_tag, hub_id) == Falsy(event_tag) \/ Falsy(hub_id)

----------------------------------------------------------------------------
(* _find_device over the devices of a space, given in the order of
   space.devices.values(); the result is the position of the device, 0 for
   None.  space.devices is keyed by device id. *)

\* for device in space.devices.values(): if <match>: return device
\* (matching is the set of the positions that match)
FirstOf(matching) ==
    IF matching = {} THEN 0
    ELSE CHOOSE i \in matching : \A j \in matching : i <= j

\* the name comparison made without regard to case
NameMatchCaseless(devices, source_name) ==
    FirstOf({i \in DOMAIN devices :
                (IF devices[i].name = "Door" THEN "door" ELSE devices[i].name)
                = (IF source_name = "Door" THEN "door" ELSE source_name)})

\* the suffix match made without the check of the candidate's length
SuffixMatchAnyLength(devices, source_id) ==
    IF Len(source_id) = SuffixLen
    THEN FirstOf({i \in DOMAIN devices : EndsWith(devices[i].id, source_id)})
    ELSE 0

ExactIdMatch(devices, source_id) ==
    FirstOf({i \in DOMAIN devices : devices[i].id = source_id})

SuffixMatch(devices, source_id) ==
    IF Len(source_id) = SuffixLen
    THEN FirstOf({i \in DOMAIN devices :
                     Len(devices[i].id) = LongIdLen /\ EndsWith(devices[i].id, source_id)})
    ELSE 0

NameMatch(devices, source_name) ==
    FirstOf({i \in DOMAIN devices : devices[i].name = source_name})

\* len(source_id) raises TypeError for a number that is not a key of
\* space.devices
FindRaises(devices, source_id) ==
    /\ ~Falsy(source_id)
    /\ IsNumber(source_id)
    /\ ExactIdMatch(devices, source_id) = 0

find_device(devices, source_name, source_id) ==
    LET by_id == IF Falsy(source_id) THEN 0
                 ELSE IF ExactIdMatch(devices, source_id) # 0
                      THEN ExactIdMatch(devices, source_id)
                      ELSE SuffixMatch(devices, source_id)
    IN  IF by_id # 0 THEN by_id
        ELSE IF ~Falsy(source_name) THEN NameMatch(devices, source_name)
        ELSE 0

----------------------------------------------------------------------------
(* The shared model as the handlers see it, and what a handler did to it:
   wrote is the set of <<space, device, field, value>> assignments it made
   (device 0 for a field of the space), dev the device it resolved. *)

Model ==
    [security_state |-> security_state, online |-> online,
     attributes |-> attributes, last_state_update |-> last_state_update,
     refresh_tasks |-> refresh_tasks, notifications |-> <<>>, fired |-> <<>>,
     wrote |-> {}, dev |-> 0]

\* the assignment replacing the mapping by one that holds the new key only
SetAttributeFresh(m, sp, dev, key, value) ==
    [m EXCEPT !.attributes[sp][dev] = Put(EmptyDict, key, value),
              !.wrote = @ \cup {<<sp, dev, key, value>>}]

\* dev.attributes[key] = value
SetAttribute(m, sp, dev, key, value) ==
    [m EXCEPT !.attributes[sp][dev] = Put(@, key, value),
              !.wrote = @ \cup {<<sp, dev, key, value>>}]

\* the online flag written to the attributes as well as to the field
SetOnlineAndAttribute(m, sp, dev, value) ==
    [m EXCEPT !.online[sp][dev] = value,
              !.attributes[sp][dev] = Put(@, "online", value),
              !.wrote = @ \cup {<<sp, dev, "online", value>>}]

\* dev.online = value
SetOnline(m, sp, dev, value) ==
    [m EXCEPT !.online[sp][dev] = value, !.wrote = @ \cup {<<sp, dev, "online", value>>}]

\* a resolver that falls back to the first device of the space
ResolveOrFirst(m, sp, source_name, source_id) ==
    [m EXCEPT !.dev =
        IF find_device(space_devices(sp), source_name, source_id) # 0
        THEN find_device(space_devices(sp), source_name, source_id)
        ELSE 1]

\* dev = self._find_device(space, source_name, source_id)
Resolve(m, sp, source_name, source_id) ==
    [m EXCEPT !.dev = find_device(space_devices(sp), source_name, source_id)]

----------------------------------------------------------------------------
(* _handle_security_event *)

is_group_event(event_tag) == event_tag \in {"grouparm", "groupdisarm"}

\* the assignment made for group events too
SetsStateAlsoForGroups(state_changed, event_tag) == state_changed

\* if state_changed and not is_group_event:
SetsState(state_changed, event_tag) == state_changed /\ ~is_group_event(event_tag)

\* the reported actor kept whatever command is pending
ReportedSourceRaw(hub_id, source_name) == source_name

\* if self.coordinator.get_pending_ha_action(space.hub_id):
\*     source_name = "Home Assistant"
ReportedSource(hub_id, source_name) ==
    IF hub_id \in pending_ha_action THEN "Home Assistant" ELSE source_name

\* the notification created for a change of state only
handle_security_event_on_change(m, sp, event_tag, source_name) ==
    LET new_state == Get(EVENT_TAG_TO_STATE, event_tag, None)
        state_changed == m.security_state[sp] # new_state
        hub_id == Account[sp].hub_id
        m1 == IF is_group_event(event_tag)
              THEN [m EXCEPT !.refresh_tasks = @ + 1]
              ELSE m
    IN  IF Falsy(new_state) \/ ~SetsState(state_changed, event_tag) THEN m1
        ELSE [m1 EXCEPT !.security_state[sp] = new_state,
                        !.last_state_update = Put(@, hub_id, now),
                        !.wrote = @ \cup {<<sp, 0, "security_state", new_state>>},
                        !.notifications =
                            Append(@, [action |-> new_state,
                                       source_name |-> ReportedSource(hub_id, source_name),
                                       space_name |-> Account[sp].name])]

handle_security_event(m, sp, event_tag, source_name) ==
    LET new_state == Get(EVENT_TAG_TO_STATE, event_tag, None)
        old_state == m.security_state[sp]
        state_changed == old_state # new_state
        hub_id == Account[sp].hub_id
        reported == ReportedSource(hub_id, source_name)
        m1 == IF is_group_event(event_tag)
              THEN [m EXCEPT !.refresh_tasks = @ + 1]
              ELSE m
        m2 == IF SetsState(state_changed, event_tag)
              THEN [m1 EXCEPT !.security_state[sp] = new_state,
                              !.last_state_update = Put(@, hub_id, now),
                              !.wrote = @ \cup {<<sp, 0, "security_state", new_state>>}]
              ELSE m1
    IN  IF Falsy(new_state) THEN m
        ELSE [m2 EXCEPT !.notifications =
                 Append(@, [action |-> new_state, source_name |-> reported,
                            space_name |-> Account[sp].name])]

----------------------------------------------------------------------------
(* The device handlers *)

\* the table's default taken whatever the transition
door_default_only(event_tag, transition) == DOOR_EVENTS[event_tag][2]

\* _handle_door_event, lines 360-366
door_is_triggered(event_tag, transition) ==
    IF transition = "RECOVERED" THEN FALSE
    ELSE IF transition = "TRIGGERED" THEN TRUE
    ELSE DOOR_EVENTS[event_tag][2]

handle_door_event(m, sp, event_tag, source_name, source_id, transition) ==
    LET r == Resolve(m, sp, source_name, source_id)
    IN  IF r.dev # 0
        THEN SetAttribute(
                 SetAttribute(r, sp, r.dev, "door_opened",
                              door_is_triggered(event_tag, transition)),
                 sp, r.dev, "door_opened_at", now)
        ELSE r

handle_motion_event(m, sp, event_tag, source_name, source_id) ==
    LET r == Resolve(m, sp, source_name, source_id)
    IN  IF r.dev # 0
        THEN SetAttribute(
                 SetAttribute(r, sp, r.dev, "motion_detected", MOTION_EVENTS[event_tag][2]),
                 sp, r.dev, "motion_detected_at", now)
        ELSE r

handle_smoke_event(m, sp, event_tag, source_name, source_id) ==
    LET r == Resolve(m, sp, source_name, source_id)
        action_key == SMOKE_EVENTS[event_tag][1]
        is_triggered == SMOKE_EVENTS[event_tag][2]
    IN  IF r.dev # 0
        THEN IF Contains(action_key, "smoke")
             THEN SetAttribute(r, sp, r.dev, "smoke_detected", is_triggered)
             ELSE IF Contains(action_key, "temp")
             THEN SetAttribute(r, sp, r.dev, "temperature_alert", is_triggered)
             ELSE IF Contains(action_key, "co")
             THEN SetAttribute(r, sp, r.dev, "co_detected", is_triggered)
             ELSE r
        ELSE r

handle_flood_event(m, sp, event_tag, source_name, source_id) ==
    LET r == Resolve(m, sp, source_name, source_id)
    IN  IF r.dev # 0
        THEN SetAttribute(r, sp, r.dev, "leak_detected", FLOOD_EVENTS[event_tag][2])
        ELSE r

handle_glass_event(m, sp, event_tag, source_name, source_id) ==
    LET r == Resolve(m, sp, source_name, source_id)
    IN  IF r.dev # 0
        THEN SetAttribute(r, sp, r.dev, "glass_break_detected", GLASS_EVENTS[event_tag][2])
        ELSE r

\* _handle_tamper_event, lines 450-456
tamper_is_triggered(event_tag, transition) ==
    IF transition = "RECOVERED" THEN FALSE
    ELSE IF transition = "TRIGGERED" THEN TRUE
    ELSE TAMPER_EVENTS[event_tag][2]

handle_tamper_event(m, sp, event_tag, source_name, source_id, transition) ==
    LET r == Resolve(m, sp, source_name, source_id)
    IN  IF r.dev # 0
        THEN SetAttribute(r, sp, r.dev, "tampered",
                          tamper_is_triggered(event_tag, transition))
        ELSE r

handle_device_status_event(m, sp, event_tag, source_name, source_id) ==
    LET r == Resolve(m, sp, source_name, source_id)
        action_key == DEVICE_STATUS_EVENTS[event_tag][1]
        is_problem == DEVICE_STATUS_EVENTS[event_tag][2]
    IN  IF r.dev # 0
        THEN IF Contains(action_key, "online") \/ Contains(action_key, "offline")
             THEN SetOnline(r, sp, r.dev, ~is_problem)
             ELSE IF Contains(action_key, "battery")
             THEN SetAttribute(r, sp, r.dev, "low_battery", is_problem)
             ELSE IF Contains(action_key, "power")
             THEN SetAttribute(r, sp, r.dev, "external_power_lost", is_problem)
             ELSE r
        ELSE r

handle_relay_event(m, sp, event_tag, source_name, source_id) ==
    LET r == Resolve(m, sp, source_name, source_id)
    IN  IF r.dev # 0
        THEN SetAttribute(r, sp, r.dev, "is_on", RELAY_EVENTS[event_tag][2])
        ELSE r

\* the first additionalDataV2 entry, whatever its type
InitiatorOfAnyType(additional_data_v2) ==
    IF Len(additional_data_v2) = 0 THEN 0 ELSE 1

\* the first additionalDataV2 entry of type INITIATOR_INFO, 0 for none
Initiator(additional_data_v2) ==
    IF \E i \in DOMAIN additional_data_v2 :
            Get(additional_data_v2[i], "additionalDataV2Type", None) = "INITIATOR_INFO"
    THEN CHOOSE i \in DOMAIN additional_data_v2 :
            /\ Get(additional_data_v2[i], "additionalDataV2Type", None) = "INITIATOR_INFO"
            /\ \A j \in DOMAIN additional_data_v2 :
                   Get(additional_data_v2[j], "additionalDataV2Type", None) = "INITIATOR_INFO"
                   => i <= j
    ELSE 0

handle_scenario_event(m, sp, event, event_tag) ==
    LET additional_data_v2 == Get(event, "additionalDataV2", <<>>)
        source_name == Get(event, "sourceObjectName", "")
        i == Initiator(additional_data_v2)
        initiator_name == IF i = 0 THEN None
                          ELSE Get(additional_data_v2[i], "objectName", None)
        initiator_type == IF i = 0 THEN None
                          ELSE Get(additional_data_v2[i], "objectType", None)
    IN  IF Falsy(initiator_name) THEN m
        ELSE [m EXCEPT !.fired =
                 Append(@, [scenario_name |-> initiator_name,
                            initiator_type |-> initiator_type,
                            target_name |-> source_name,
                            event_tag |-> event_tag,
                            space_name |-> Account[sp].name])]

----------------------------------------------------------------------------
(* _handle_event, lines 200-269 *)

\* the window taken inclusive of its end
IsDuplicateInclusive(last_time) == now - last_time <= dedup_window

\* if now - last_time < self._dedup_window
IsDuplicate(last_time) == now - last_time < dedup_window

\* the cleanup keeping an entry exactly as old as the retention window
PruneInclusive(events) ==
    [k \in {x \in DOMAIN events : now - events[x] <= RetentionWindow} |-> events[k]]

\* the cleanup keeping the stale entries instead of the fresh ones
PruneKeepsStale(events) ==
    [k \in {x \in DOMAIN events : now - events[x] >= RetentionWindow} |-> events[k]]

\* {k: v for k, v in self._recent_events.items() if now - v < 60}
Prune(events) ==
    [k \in {x \in DOMAIN events : now - events[x] < RetentionWindow} |-> events[k]]

\* the time a delivery for this hub last passed with the key: a cache that
\* keeps the hubs apart
last_time_of_hub(hub_id, event_key) ==
    LET same == {i \in DOMAIN hist :
                    /\ hist[i].stage \in {"unknown_hub", "handler_error", "handled"}
                    /\ hist[i].event_key = event_key
                    /\ hist[i].hub_id = hub_id}
    IN  IF same = {} THEN 0
        ELSE hist[CHOOSE i \in same : \A k \in same : k <= i].time

\* last_time = self._recent_events.get(event_key, 0): one cache for all hubs
last_time_of(hub_id, event_key) == Get(recent_events, event_key, 0)

\* the key of a delivery that passed is not recorded
RecordNothing(events, event_key) == events

\* self._recent_events[event_key] = now
Record(events, event_key) == Put(events, event_key, now)

\* a duplicate that refreshes the recorded time of its key
SuppressRefreshing(base, event_key, transition) ==
    [base EXCEPT !.stage = "duplicate", !.event_key = event_key,
                 !.transition = transition,
                 !.recent_events = Put(recent_events, event_key, now)]

\* a duplicate that still reaches the model-changed notification
SuppressNotifying(base, event_key, transition) ==
    [base EXCEPT !.stage = "duplicate", !.event_key = event_key,
                 !.transition = transition, !.updated = 1]

\* the duplicate branch, lines 204-210: the call returns, the cache is left
\* as it is
Suppress(base, event_key, transition) ==
    [base EXCEPT !.stage = "duplicate", !.event_key = event_key,
                 !.transition = transition]

\* the if/elif chain over the category tables
Dispatch(m, sp, event, event_tag, source_name, source_id, transition) ==
    IF event_tag \in DOMAIN EVENT_TAG_TO_STATE
    THEN handle_security_event(m, sp, event_tag, source_name)
    ELSE IF event_tag \in DOMAIN DOOR_EVENTS
    THEN handle_door_event(m, sp, event_tag, source_name, source_id, transition)
    ELSE IF event_tag \in DOMAIN MOTION_EVENTS
    THEN handle_motion_event(m, sp, event_tag, source_name, source_id)
    ELSE IF event_tag \in DOMAIN SMOKE_EVENTS
    THEN handle_smoke_event(m, sp, event_tag, source_name, source_id)
    ELSE IF event_tag \in DOMAIN FLOOD_EVENTS
    THEN handle_flood_event(m, sp, event_tag, source_name, source_id)
    ELSE IF event_tag \in DOMAIN GLASS_EVENTS
    THEN handle_glass_event(m, sp, event_tag, source_name, source_id)
    ELSE IF event_tag \in DOMAIN TAMPER_EVENTS
    THEN handle_tamper_event(m, sp, event_tag, source_name, source_id, transition)
    ELSE IF event_tag \in DOMAIN DEVICE_STATUS_EVENTS
    THEN handle_device_status_event(m, sp, event_tag, source_name, source_id)
    ELSE IF event_tag \in DOMAIN RELAY_EVENTS
    THEN handle_relay_event(m, sp, event_tag, source_name, source_id)
    ELSE IF event_tag \in SCENARIO_EVENTS
    THEN handle_scenario_event(m, sp, event, event_tag)
    ELSE m

\* an except clause for lookup errors only
CaughtLookupErrorsOnly(error) == error \in {"KeyError", "IndexError"}

\* except Exception as err: every error a payload can provoke derives from
\* Exception
Caught(error) == error \in {"AttributeError", "TypeError", "KeyError", "IndexError"}

\* the model-changed notification sent only after a change of security state
async_set_updated_data_for_security(m) ==
    IF \E w \in m.wrote : w[3] = "security_state" THEN 1 ELSE 0

\* the model-changed notification sent only when the handler wrote a field
async_set_updated_data_on_write(m) == IF m.wrote # {} THEN 1 ELSE 0

\* self.coordinator.async_set_updated_data(self.coordinator.account): the
\* number of model-changed notifications sent after the handler left m
async_set_updated_data(m) == 1

\* What one call of _handle_event does: where it returned (stage), the dedup
\* cache it leaves, and the model its handler leaves.  An exception ends in
\* the except clause (stage tag_error before the dedup check, handler_error
\* after it), or leaves the call (stage raised) if the clause does not catch
\* it.
handle_event(event_data) ==
    LET event == Unwrap(event_data)
        event_tag == EventTag(event)
        hub_id == HubId(event)
        source_name == SourceName(event)
        source_id == SourceId(event)
        transition == Transition(event)
        event_key == EventKey(source_id, event_tag, transition)
        last_time == last_time_of(hub_id, event_key)
        sp == FindSpace(hub_id)
        base == [stage |-> "malformed", event_key |-> "", event_tag |-> "",
                 transition |-> "", hub_id |-> hub_id, sp |-> 0,
                 recent_events |-> recent_events, m |-> Model, updated |-> 0]
        keyed == [base EXCEPT !.event_key = event_key, !.event_tag = event_tag,
                              !.transition = transition]
        recorded == [keyed EXCEPT !.recent_events =
                                      Prune(Record(recent_events, event_key))]
        handled == Dispatch(Model, sp, event, event_tag, source_name, source_id,
                            transition)
    IN  IF TagRaises(event)
        THEN [base EXCEPT !.stage = IF Caught("AttributeError")
                                    THEN "tag_error" ELSE "raised"]
        ELSE IF IsMalformed(event_tag, hub_id)
        THEN [base EXCEPT !.event_tag = event_tag]
        ELSE IF IsDuplicate(last_time)
        THEN Suppress(keyed, event_key, transition)
        ELSE IF sp = 0
        THEN [recorded EXCEPT !.stage = "unknown_hub"]
        ELSE IF event_tag \in DeviceTags /\ FindRaises(space_devices(sp), source_id)
        THEN [recorded EXCEPT !.sp = sp,
                              !.stage = IF Caught("TypeError")
                                        THEN "handler_error" ELSE "raised"]
        ELSE [recorded EXCEPT !.stage = "handled", !.sp = sp, !.m = handled,
                              !.updated = async_set_updated_data(handled)]

\* the space and the device a payload refers to, <<0, 0>> when the hub is
\* unknown and <<space, 0>> when no device of the space matches
Target(event_data) ==
    LET event == Unwrap(event_data)
        sp == FindSpace(HubId(event))
    IN  IF TagRaises(event) \/ sp = 0 THEN <<0, 0>>
        ELSE IF FindRaises(space_devices(sp), SourceId(event)) THEN <<sp, 0>>
        ELSE <<sp, find_device(space_devices(sp), SourceName(event), SourceId(event))>>

\* A delivery of the push transport to the registered callback.
Deliver(event_data, max) ==
    /\ Len(hist) < max
    /\ \E o \in {handle_event(event_data)} :
           /\ recent_events' = o.recent_events
           /\ security_state' = o.m.security_state
           /\ online' = o.m.online
           /\ attributes' = o.m.attributes
           /\ last_state_update' = o.m.last_state_update
           /\ refresh_tasks' = o.m.refresh_tasks
           /\ notifications' = notifications \o o.m.notifications
           /\ fired' = fired \o o.m.fired
           /\ updated' = updated + o.updated
           /\ hist' = Append(hist, [event_key |-> o.event_key, time |-> now,
                                    stage |-> o.stage, event_tag |-> o.event_tag,
                                    transition |-> o.transition, hub_id |-> o.hub_id,
                                    sp |-> o.sp, dev |-> o.m.dev, wrote |-> o.m.wrote,
                                    target |-> Target(event_data),
                                    event_data |-> event_data])
    /\ UNCHANGED <<now, pending_ha_action, reconciled, fd, call, nz, hass>>

----------------------------------------------------------------------------
(* Time *)

\* a second passes
Tick ==
    /\ (now - StartTime) % RetentionWindow < MaxElapsed
    /\ now' = now + 1
    /\ UNCHANGED <<recent_events, last_state_update, security_state, online,
                   attributes, pending_ha_action, refresh_tasks, notifications,
                   fired, updated, reconciled, hist, fd,
                   call, nz, hass>>

\* a quiet period as long as the retention window passes
Idle ==
    /\ now - StartTime <= MaxElapsed
    /\ now' = now + RetentionWindow
    /\ UNCHANGED <<recent_events, last_state_update, security_state, online,
                   attributes, pending_ha_action, refresh_tasks, notifications,
                   fired, updated, reconciled, hist, fd,
                   call, nz, hass>>

\* a quiet period two seconds short of the retention window passes
Lull ==
    /\ now = StartTime
    /\ now' = now + RetentionWindow - 2
    /\ UNCHANGED <<recent_events, last_state_update, security_state, online,
                   attributes, pending_ha_action, refresh_tasks, notifications,
                   fired, updated, reconciled, hist, fd,
                   call, nz, hass>>

\* a second passes around the end of the retention window
Wait ==
    /\ now >= StartTime + RetentionWindow - 2
    /\ now < StartTime + RetentionWindow - 2 + MaxElapsed
    /\ now' = now + 1
    /\ UNCHANGED <<recent_events, last_state_update, security_state, online,
                   attributes, pending_ha_action, refresh_tasks, notifications,
                   fired, updated, reconciled, hist, fd,
                   call, nz, hass>>

----------------------------------------------------------------------------
(* The door binary sensor of devices/door_contact.py *)

\* "value_fn": lambda: self.device.attributes.get("door_opened", False)
value_fn(device_attributes) == Get(device_attributes, "door_opened", FALSE)

----------------------------------------------------------------------------
(* The protection tracker and the reconciliation cycle *)

\* the protection window taken inclusive of its end
is_state_protected_inclusive(hub_id) ==
    now - Get(last_state_update, hub_id, 0) <= ProtectionWindow

is_state_protected(hub_id) ==
    now - Get(last_state_update, hub_id, 0) < ProtectionWindow

SecurityStates == {"armed", "disarmed"}

\* a full snapshot of the pull channel: the security state of every space,
\* and the attributes every device reports
Snapshots ==
    [security_state : [Spaces -> SecurityStates], door_opened : {FALSE}]

SnapshotAttributes(snap) == [door_opened |-> snap.door_opened]

\* The merge of a snapshot into the model: a protected hub keeps its state.
Merge(snap) ==
    /\ security_state' =
           [sp \in Spaces |->
               IF is_state_protected(Account[sp].hub_id) THEN security_state[sp]
               ELSE snap.security_state[sp]]
    /\ attributes' =
           [sp \in Spaces |->
               IF is_state_protected(Account[sp].hub_id) THEN attributes[sp]
               ELSE [d \in DevicesOf(sp) |-> SnapshotAttributes(snap)]]
    /\ online' =
           [sp \in Spaces |->
               IF is_state_protected(Account[sp].hub_id) THEN online[sp]
               ELSE [d \in DevicesOf(sp) |-> TRUE]]
    /\ reconciled' = Append(reconciled, snap)

\* the periodic reconciliation cycle
Reconcile(snap) ==
    /\ Len(reconciled) < MaxReconciles
    /\ Merge(snap)
    /\ UNCHANGED <<now, recent_events, last_state_update, pending_ha_action,
                   refresh_tasks, notifications, fired, updated, hist, fd,
                   call, nz, hass>>

\* a scheduled coordinator.async_request_refresh() task runs
RunRefresh(snap) ==
    /\ refresh_tasks > 0
    /\ refresh_tasks' = refresh_tasks - 1
    /\ Merge(snap)
    /\ UNCHANGED <<now, recent_events, last_state_update, pending_ha_action,
                   notifications, fired, updated, hist, fd,
                   call, nz, hass>>

\* a command is issued from Home Assistant for a hub
HaCommand(hub_id) ==
    /\ hub_id \notin pending_ha_action
    /\ pending_ha_action' = pending_ha_action \cup {hub_id}
    /\ UNCHANGED <<now, recent_events, last_state_update, security_state, online,
                   attributes, refresh_tasks, notifications, fired, updated,
                   reconciled, hist, fd,
                   call, nz, hass>>

----------------------------------------------------------------------------
(* One call of _handle_event followed step by step: the dedup check with the
   recording of the key, the hub lookup and device resolution, the writes of
   the handler, and the protection mark with the model-changed notification.
   Whatever else runs on the event loop (a snapshot merge, a scheduled
   refresh, another delivery) can run only where the call gives up the loop. *)

\* no call of _handle_event is in progress
NoHandle == [pc |-> "idle"]

\* the call gives up the loop after the device was resolved
YieldPointsAfterResolution == {"resolved"}

\* the positions at which _handle_event gives up the event loop: it is a
\* plain def without await, so there is none
YieldPoints == {}

\* no call is in progress, or the call in progress has given up the loop
Interleaves == call.pc \in {"idle"} \cup YieldPoints

\* the record of a finished call
Delivery(o, event_data) ==
    [event_key |-> o.event_key, time |-> now, stage |-> o.stage,
     event_tag |-> o.event_tag, transition |-> o.transition, hub_id |-> o.hub_id,
     sp |-> o.sp, dev |-> o.m.dev, wrote |-> o.m.wrote,
     target |-> Target(event_data), event_data |-> event_data]

\* lines 135-216: normalisation, the malformed test, the dedup check, the
\* recording of the key and the cleanup
CheckStep(event_data) ==
    /\ Interleaves
    /\ call.pc = "idle"
    /\ Len(hist) < MaxUnitDeliveries
    /\ \E o \in {handle_event(event_data)} :
          IF o.stage \in {"malformed", "tag_error", "raised", "duplicate"}
          THEN /\ hist' = Append(hist, Delivery(o, event_data))
               /\ UNCHANGED <<recent_events, call>>
          ELSE /\ recent_events' = o.recent_events
               /\ call' = [pc |-> "checked", event_data |-> event_data, o |-> o]
               /\ UNCHANGED hist
    /\ UNCHANGED <<now, last_state_update, security_state, online, attributes,
                   pending_ha_action, refresh_tasks, notifications, fired,
                   updated, reconciled, fd, nz, hass>>

\* lines 219-227 and the _find_device call of the handler: the call ends
\* here for an unknown hub and for an exception of the resolver
ResolveStep ==
    /\ call.pc = "checked"
    /\ IF call.o.stage \in {"unknown_hub", "handler_error"}
       THEN /\ hist' = Append(hist, Delivery(call.o, call.event_data))
            /\ call' = NoHandle
       ELSE /\ call' = [call EXCEPT !.pc = "resolved"]
            /\ UNCHANGED hist
    /\ UNCHANGED <<now, recent_events, last_state_update, security_state, online,
                   attributes, pending_ha_action, refresh_tasks, notifications,
                   fired, updated, reconciled, fd, nz, hass>>

\* the writes of the handler to the space or the device, the refresh it
\* schedules and the notifications it creates
WriteStep ==
    /\ call.pc = "resolved"
    /\ security_state' = call.o.m.security_state
    /\ online' = call.o.m.online
    /\ attributes' = call.o.m.attributes
    /\ refresh_tasks' = call.o.m.refresh_tasks
    /\ notifications' = notifications \o call.o.m.notifications
    /\ fired' = fired \o call.o.m.fired
    /\ call' = [call EXCEPT !.pc = "written"]
    /\ UNCHANGED <<now, recent_events, last_state_update, pending_ha_action,
                   updated, reconciled, hist, fd, nz, hass>>

\* line 305 and line 266: the protection mark and the model-changed
\* notification; the call returns
MarkStep ==
    /\ call.pc = "written"
    /\ last_state_update' = call.o.m.last_state_update
    /\ updated' = updated + call.o.updated
    /\ hist' = Append(hist, Delivery(call.o, call.event_data))
    /\ call' = NoHandle
    /\ UNCHANGED <<now, recent_events, security_state, online, attributes,
                   pending_ha_action, refresh_tasks, notifications, fired,
                   reconciled, fd, nz, hass>>

----------------------------------------------------------------------------
(* The config entries: async_setup_entry, async_unload_entry and the two
   services.  The state of an entry and the registry of the services are
   those of Home Assistant: an entry is set up when it is not loaded, and
   unloaded when it is loaded; registering a service under a name that is
   taken replaces its handler. *)

\* the config entries of the integration
Entries == {"e1", "e2"}

\* no handler is registered for either service (0 stands for none; a
\* handler is the number of the coordinator its closure captured)
NoServices == [force_arm |-> 0, force_arm_night |-> 0]

\* how a setup ends: it returns True, returns False after AjaxAuthError,
\* raises ConfigEntryNotReady (from the login or from the first refresh),
\* or fails while the platforms are set up, after the coordinator was stored
SetupOutcomes == {"ok", "auth_error", "not_ready", "platform_error"}

\* every unload removes the services
AnyUnload(data) == TRUE

\* if not hass.data[DOMAIN]:
LastEntry(data) == DOMAIN data = {}

\* the number of service calls so far
ServiceCalls == Cardinality({k \in DOMAIN hass.log : hass.log[k].op = "call"})

SetupEntry(entry, outcome) ==
    /\ hass.state[entry] # "loaded"
    /\ hass.created < MaxSetups
    /\ LET coordinator == hass.created + 1
           stored == outcome \in {"ok", "platform_error"}
       IN  hass' =
             [hass EXCEPT
                !.created = coordinator,
                !.data = IF stored THEN Put(hass.data, entry, coordinator)
                         ELSE hass.data,
                !.services = IF outcome = "ok"
                             THEN [force_arm |-> coordinator,
                                   force_arm_night |-> coordinator]
                             ELSE hass.services,
                !.state[entry] = CASE outcome = "ok" -> "loaded"
                                   [] outcome = "not_ready" -> "setup_retry"
                                   [] OTHER -> "setup_error",
                !.log = Append(hass.log, [op |-> "setup", entry |-> entry,
                                          coordinator |-> coordinator,
                                          outcome |-> outcome])]
    /\ UNCHANGED <<now, recent_events, last_state_update, security_state, online,
                   attributes, pending_ha_action, refresh_tasks, notifications,
                   fired, updated, reconciled, hist, fd, call, nz>>

UnloadEntry(entry, unload_ok) ==
    /\ hass.state[entry] = "loaded"
    /\ LET coordinator == hass.data[entry]
           data == [e \in DOMAIN hass.data \ {entry} |-> hass.data[e]]
       IN  hass' =
             IF unload_ok
             THEN [hass EXCEPT
                     !.data = data,
                     !.closed = hass.closed \cup {coordinator},
                     !.services = IF LastEntry(data) THEN NoServices
                                  ELSE hass.services,
                     !.state[entry] = "not_loaded",
                     !.log = Append(hass.log, [op |-> "unload", entry |-> entry,
                                               unload_ok |-> TRUE])]
             ELSE [hass EXCEPT
                     !.state[entry] = "failed_unload",
                     !.log = Append(hass.log, [op |-> "unload", entry |-> entry,
                                               unload_ok |-> FALSE])]
    /\ UNCHANGED <<now, recent_events, last_state_update, security_state, online,
                   attributes, pending_ha_action, refresh_tasks, notifications,
                   fired, updated, reconciled, hist, fd, call, nz>>

\* a call of a registered service: its handler returns early for an entity
\* it cannot place, and otherwise calls the coordinator of its closure
CallService(name, entity_ok) ==
    /\ hass.services[name] # 0
    /\ ServiceCalls < MaxServiceCalls
    /\ hass' = [hass EXCEPT !.log =
                   Append(hass.log,
                          [op |-> "call", name |-> name,
                           to |-> IF entity_ok THEN hass.services[name] ELSE 0])]
    /\ UNCHANGED <<now, recent_events, last_state_update, security_state, online,
                   attributes, pending_ha_action, refresh_tasks, notifications,
                   fired, updated, reconciled, hist, fd, call, nz>>

----------------------------------------------------------------------------
(* The payloads the push transport delivers: the nested shape and the flat
   shape of the wire contract. *)

NestedEvent(tag, hub, code, id, name) ==
    [event |-> [eventTag |-> tag, hubId |-> hub, eventCode |-> code,
                device |-> [id |-> id, name |-> name, type |-> "DoorProtect"]]]

FlatEvent(tag, hub, code, id, name) ==
    [eventTag |-> tag, hubId |-> hub, eventCode |-> code,
     sourceObjectId |-> id, sourceObjectName |-> name]

SecurityEvent(tag, hub, who) ==
    [event |-> [eventTag |-> tag, hubId |-> hub,
                source |-> [name |-> who, type |-> "USER"]]]

ScenarioEvent(tag, hub, target, data) ==
    [eventTag |-> tag, hubId |-> hub, sourceObjectName |-> target,
     additionalDataV2 |-> data]

\* a code of each transition, no code, and a code the parser does not know
EventCodes == {"M_01_20", "M_01_21", "", "X_99"}

TransitionTags == DOMAIN DOOR_EVENTS \cup DOMAIN TAMPER_EVENTS

PlainTags ==
    DOMAIN MOTION_EVENTS \cup DOMAIN SMOKE_EVENTS \cup DOMAIN FLOOD_EVENTS
    \cup DOMAIN GLASS_EVENTS \cup DOMAIN DEVICE_STATUS_EVENTS \cup DOMAIN RELAY_EVENTS

InitiatorInfo ==
    << [additionalDataV2Type |-> "OTHER_INFO", objectName |-> "Noise"],
       [additionalDataV2Type |-> "INITIATOR_INFO", objectName |-> "Button",
        objectType |-> "BUTTON"] >>

\* two entries of type INITIATOR_INFO
TwoInitiators ==
    << [additionalDataV2Type |-> "INITIATOR_INFO", objectName |-> "Button",
        objectType |-> "BUTTON"],
       [additionalDataV2Type |-> "INITIATOR_INFO", objectName |-> "Keypad",
        objectType |-> "KEYPAD"] >>

\* the first entry of type INITIATOR_INFO has no name, a later one has
UnnamedInitiator ==
    << [additionalDataV2Type |-> "INITIATOR_INFO", objectName |-> ""],
       [additionalDataV2Type |-> "INITIATOR_INFO", objectName |-> "Keypad",
        objectType |-> "KEYPAD"] >>

\* every category, every transition of the transition-sensitive ones, a
\* device found by id, by suffix and by name, and the dropped deliveries
Events ==
    {NestedEvent(tag, "H1", code, "AABBCCDD", "Hall") :
        tag \in TransitionTags, code \in EventCodes}
    \cup {FlatEvent(tag, "H1", "", "44556677", "") : tag \in PlainTags}
    \cup {SecurityEvent(tag, "H1", "Alice") : tag \in DOMAIN EVENT_TAG_TO_STATE}
    \cup {SecurityEvent("Disarm", "H2", "Bob"),
          FlatEvent("dooropened", "H1", "M_01_21", "", "Front Door"),
          FlatEvent("doorclosed", "H1", "", "FFFFFFFF", "Nobody"),
          FlatEvent("relayon", "H1", "", "FFFFFFFF", "Nobody"),
          FlatEvent("leakdetected", "H1", "", "FFFFFFFF", "Nobody"),
          ScenarioEvent("relayonbyscenario", "H1", "Lamp", InitiatorInfo),
          ScenarioEvent("relayonbyscenario", "H1", "Lamp", <<>>),
          ScenarioEvent("relayonbyscenario", "H1", "Lamp", TwoInitiators),
          ScenarioEvent("relayonbyscenario", "H1", "Lamp", UnnamedInitiator),
          FlatEvent("foobar", "H1", "", "AABBCCDD", "Hall"),
          FlatEvent("dooropened", "HX", "", "AABBCCDD", "Hall"),
          FlatEvent("dooropened", "H1", "", "#12345678", "Hall"),
          [eventTag |-> None, hubId |-> "H1"],
          [hubId |-> "H1"],
          [eventTag |-> "arm"],
          [eventTag |-> "", hubId |-> "H1"],
          [eventTag |-> "arm", hubId |-> ""]}

\* the deliveries that fail each in its way, among deliveries that succeed
FaultEvents ==
    {[eventTag |-> None, hubId |-> "H1"],
     [hubId |-> "H1"],
     FlatEvent("dooropened", "H1", "", "#12345678", "Hall"),
     FlatEvent("foobar", "H1", "", "AABBCCDD", "Hall"),
     FlatEvent("dooropened", "HX", "", "AABBCCDD", "Hall"),
     FlatEvent("doorclosed", "H1", "", "FFFFFFFF", "Nobody"),
     NestedEvent("dooropened", "H1", "M_01_20", "AABBCCDD", "Hall"),
     NestedEvent("doorclosed", "H1", "M_01_21", "AABBCCDD", "Hall"),
     FlatEvent("lowbattery", "H1", "", "AABBCCDD", "Hall"),
     SecurityEvent("disarm", "H1", "Alice"),
     SecurityEvent("grouparm", "H1", "Alice"),
     ScenarioEvent("relayonbyscenario", "H1", "Lamp", <<>>)}

\* a key that goes stale while another is repeated
PruneEvents ==
    {NestedEvent("dooropened", "H1", "M_01_20", "AABBCCDD", "Hall"),
     SecurityEvent("disarm", "H1", "Alice")}

\* repeated and alternating deliveries of a few keys
DedupEvents ==
    {NestedEvent("dooropened", "H1", "M_01_20", "AABBCCDD", "Hall"),
     FlatEvent("DoorOpened", "H1", "", "AABBCCDD", "Hall"),
     SecurityEvent("disarm", "H1", "Alice"),
     ScenarioEvent("relayonbyscenario", "H1", "Lamp", InitiatorInfo)}

\* the same event for either hub: from a user, and from a device that both
\* spaces know by the same name and that the payload does not identify
HubEvents ==
    {SecurityEvent("disarm", "H1", "Alice"),
     SecurityEvent("disarm", "H2", "Bob"),
     SecurityEvent("nightmodeon", "H2", "Bob"),
     FlatEvent("dooropened", "H1", "", "", "Front Door"),
     FlatEvent("dooropened", "H2", "", "", "Front Door")}

\* The source fields of the wire contract, each absent, empty or set to a
\* value of its own: the fields of the device object, of the source object,
\* and the flattened ones.
DeviceFields == {"id", "name", "type"}
SourceFields == {"name", "type"}
FirstFlatFields == {"sourceObjectName", "sourceObjectId", "sourceObjectType"}
LastFlatFields == {"sourceName", "deviceId", "sourceType"}

\* a field of an object is absent, empty or set; a flattened field that is
\* tried first is absent or set, one that is tried last is empty or set
Presence == {"absent", "empty", "value"}
FirstPresence == {"absent", "value"}
LastPresence == {"empty", "value"}

\* the object with the fields that are not absent; prefix tells the values
\* of one object from those of another
ObjectOf(choice, prefix) ==
    [k \in {f \in DOMAIN choice : choice[f] # "absent"} |->
        IF choice[k] = "empty" THEN "" ELSE prefix \o k]

\* the fields of an event: tag, hub, the flattened fields that are not
\* absent, and the device and source objects unless all their fields are
WithObjects(flat, device, source) ==
    [k \in DOMAIN flat
            \cup (IF DOMAIN device = {} THEN {} ELSE {"device"})
            \cup (IF DOMAIN source = {} THEN {} ELSE {"source"}) |->
        IF k = "device" THEN device
        ELSE IF k = "source" THEN source
        ELSE flat[k]]

SourcePayload(d, s, f, g, nested) ==
    LET flat == ObjectOf(f, "") @@ ObjectOf(g, "")
                @@ [eventTag |-> "dooropened", hubId |-> "H1"]
        event == WithObjects(flat, ObjectOf(d, "device."), ObjectOf(s, "source."))
    IN  IF nested THEN [event |-> event] ELSE event

SourcePayloads ==
    {SourcePayload(d, s, f, g, nested) :
        d \in [DeviceFields -> Presence], s \in [SourceFields -> Presence],
        f \in [FirstFlatFields -> FirstPresence],
        g \in [LastFlatFields -> LastPresence], nested \in BOOLEAN}

\* deliveries that pass the dedup check and are then dropped, each in its
\* way: a device the coordinator does not know yet, an unknown hub, an
\* unknown tag, an exception in the handler; and one that is applied
LateEvents ==
    {FlatEvent("dooropened", "H1", "", "CCDDEEFF", "Garage"),
     FlatEvent("dooropened", "HX", "", "AABBCCDD", "Hall"),
     FlatEvent("foobar", "H1", "", "AABBCCDD", "Hall"),
     FlatEvent("dooropened", "H1", "", "#12345678", "Hall"),
     NestedEvent("dooropened", "H1", "M_01_20", "AABBCCDD", "Hall")}

\* a security event that marks hub H1 protected, and group events
RefreshEvents ==
    {SecurityEvent("disarm", "H1", "Alice"),
     SecurityEvent("grouparm", "H1", "Alice"),
     SecurityEvent("groupdisarm", "H2", "Bob")}

\* a group event, a security event, a device event and an event of a hub
\* no one knows
UnitEvents ==
    {SecurityEvent("grouparm", "H1", "Alice"),
     SecurityEvent("disarm", "H1", "Alice"),
     NestedEvent("dooropened", "H1", "M_01_20", "AABBCCDD", "Hall"),
     FlatEvent("dooropened", "HX", "", "AABBCCDD", "Hall")}

\* the events that move the security state, and a device event
ReconcileEvents ==
    {SecurityEvent("disarm", "H1", "Alice"),
     SecurityEvent("grouparm", "H1", "Alice"),
     SecurityEvent("disarm", "H2", "Bob"),
     NestedEvent("dooropened", "H1", "M_01_20", "AABBCCDD", "Hall")}

----------------------------------------------------------------------------
(* _find_device on its own: spaces of up to MaxDevices devices with distinct
   ids (space.devices is keyed by id), in every order *)

FdIds ==
    {"0011223344556677", "8899AABB44556677", "44556677", "011223344556677",
     "AABBCCDD"}

FdNames == {"Door", "door", "Hall"}

FdDevices == [id : FdIds, name : FdNames]

FdSourceIds ==
    {"", "44556677", "4556677", "344556677", "AABBCCDD", "0011223344556677",
     "FFFFFFFF"}

FdSourceNames == {"", "Door", "door", "Nobody"}

FdSpaces ==
    UNION {{ds \in [1..n -> FdDevices] :
               \A i, j \in 1..n : i # j => ds[i].id # ds[j].id} : n \in 0..MaxDevices}

NoCall == [devices |-> <<>>, source_name |-> "", source_id |-> "", result |-> 0,
           done |-> FALSE]

FindCall ==
    /\ ~fd.done
    /\ fd' = [fd EXCEPT !.result = find_device(fd.devices, fd.source_name, fd.source_id),
                        !.done = TRUE]
    /\ UNCHANGED <<now, recent_events, last_state_update, security_state, online,
                   attributes, pending_ha_action, refresh_tasks, notifications,
                   fired, updated, reconciled, hist, call, nz, hass>>

----------------------------------------------------------------------------
(* The values of call, nz and hass while nothing is in progress *)

\* no payload has been normalised on its own
NoNormalize == [done |-> FALSE]

\* hass.data[DOMAIN] is empty, no entry is loaded and no service is
\* registered.  An AjaxApi and its coordinator carry the number of the setup
\* that created them; log is the record of the operations so far.
NoEntries ==
    [data |-> EmptyDict, state |-> [e \in Entries |-> "not_loaded"],
     created |-> 0, services |-> NoServices, closed |-> {}, log |-> <<>>]

----------------------------------------------------------------------------
(* Specifications *)

\* after construction and the coordinator's first refresh: empty caches, every
\* space armed, no device has reported an attribute yet
InitModel ==
    /\ now = StartTime
    /\ recent_events = EmptyDict
    /\ last_state_update = EmptyDict
    /\ security_state = [sp \in Spaces |-> "armed"]
    /\ online = [sp \in Spaces |-> [d \in DevicesOf(sp) |-> TRUE]]
    /\ attributes = [sp \in Spaces |-> [d \in DevicesOf(sp) |-> EmptyDict]]
    /\ pending_ha_action = {}
    /\ refresh_tasks = 0
    /\ notifications = <<>>
    /\ fired = <<>>
    /\ updated = 0
    /\ reconciled = <<>>
    /\ hist = <<>>
    /\ call = NoHandle
    /\ hass = NoEntries

Init == InitModel /\ fd = NoCall /\ nz = NoNormalize

\* every category of event, one or a few deliveries
Next ==
    \/ \E e \in Events : Deliver(e, MaxDeliveries)
    \/ Tick
    \/ \E sp \in Spaces : HaCommand(Account[sp].hub_id)

Spec == Init /\ [][Next]_vars

\* push events against the reconciliation cycle
NextReconcile ==
    \/ \E e \in ReconcileEvents : Deliver(e, MaxDeliveries)
    \/ Tick
    \/ \E snap \in Snapshots : Reconcile(snap)
    \/ \E snap \in Snapshots : RunRefresh(snap)

SpecReconcile == Init /\ [][NextReconcile]_vars

NextDedup ==
    \/ \E e \in DedupEvents : Deliver(e, MaxDedupDeliveries)
    \/ Tick
    \/ Idle

SpecDedup == Init /\ [][NextDedup]_vars

\* failing deliveries among succeeding ones
NextFault ==
    \/ \E e \in FaultEvents : Deliver(e, MaxFaultDeliveries)
    \/ Tick

SpecFault == Init /\ [][NextFault]_vars

\* deliveries around the end of the retention window
NextPrune ==
    \/ \E e \in PruneEvents : Deliver(e, MaxDedupDeliveries)
    \/ Lull
    \/ Wait

SpecPrune == Init /\ [][NextPrune]_vars

NextHubs ==
    \/ \E e \in HubEvents : Deliver(e, MaxHubDeliveries)
    \/ Tick

SpecHubs == Init /\ [][NextHubs]_vars

NextEntries ==
    \/ \E entry \in Entries : \E outcome \in SetupOutcomes : SetupEntry(entry, outcome)
    \/ \E entry \in Entries : \E unload_ok \in BOOLEAN : UnloadEntry(entry, unload_ok)
    \/ \E name \in DOMAIN NoServices : \E entity_ok \in BOOLEAN :
          CallService(name, entity_ok)

SpecEntries == Init /\ [][NextEntries]_vars

\* a payload whose source fields are to be extracted
InitNormalize ==
    /\ InitModel
    /\ fd = NoCall
    /\ nz \in {[done |-> FALSE, event_data |-> e, source_name |-> "",
                 source_id |-> "", source_type |-> ""] : e \in SourcePayloads}

\* lines 137 and 149-180 of _handle_event
Normalize ==
    /\ ~nz.done
    /\ LET event == Unwrap(nz.event_data)
       IN  nz' = [nz EXCEPT !.done = TRUE,
                            !.source_name = SourceName(event),
                            !.source_id = SourceId(event),
                            !.source_type = SourceType(event)]
    /\ UNCHANGED <<now, recent_events, last_state_update, security_state, online,
                   attributes, pending_ha_action, refresh_tasks, notifications,
                   fired, updated, reconciled, hist, fd, call, hass>>

SpecNormalize == InitNormalize /\ [][Normalize]_vars

NextLate ==
    \/ \E e \in LateEvents : Deliver(e, MaxFaultDeliveries)
    \/ Tick
    \/ \E snap \in Snapshots : Reconcile(snap)

SpecLate == Init /\ [][NextLate]_vars

NextRefresh ==
    \/ \E e \in RefreshEvents : Deliver(e, MaxRefreshDeliveries)
    \/ Tick
    \/ \E snap \in Snapshots : RunRefresh(snap)

SpecRefresh == Init /\ [][NextRefresh]_vars

\* what else runs on the event loop, when the loop is free
LoopRuns ==
    /\ Interleaves
    /\ \E snap \in Snapshots : Reconcile(snap) \/ RunRefresh(snap)

NextUnit ==
    \/ \E e \in UnitEvents : CheckStep(e)
    \/ ResolveStep
    \/ WriteStep
    \/ MarkStep
    \/ LoopRuns
    \/ Interleaves /\ now - StartTime < MaxUnitElapsed /\ Tick

SpecUnit == Init /\ [][NextUnit]_vars

InitFind ==
    /\ InitModel
    /\ nz = NoNormalize
    /\ fd \in [devices : FdSpaces, source_name : FdSourceNames,
               source_id : FdSourceIds, result : {0}, done : {FALSE}]

SpecFind == InitFind /\ [][FindCall]_vars

----------------------------------------------------------------------------
(* Properties of the deduplication, over the record of deliveries *)

\* the delivery got past the dedup check
Passed(h) == h.stage \in {"unknown_hub", "handler_error", "handled"}

\* the delivery got as far as the dedup check: it has an event key
Keyed(h) == h.stage \notin {"malformed", "tag_error", "raised"}

\* deliveries i and j carry the same event key
SameKey(i, j) ==
    /\ Keyed(hist[i])
    /\ Keyed(hist[j])
    /\ hist[i].event_key = hist[j].event_key

\* a delivery with the key of j passed the dedup check less than the dedup
\* window before j
RecentlyPassed(j) ==
    \E i \in 1..(j - 1) :
        /\ SameKey(i, j)
        /\ Passed(hist[i])
        /\ hist[j].time - hist[i].time < dedup_window

\* a device event for a known hub and a device the resolver finds
DeviceDelivery(h) ==
    /\ h.event_tag \in TransitionTags \cup PlainTags
    /\ h.target[1] # 0
    /\ h.target[2] # 0

\* C1 as stated: of any two deliveries with the same (sourceId, tag,
\* transition) less than the dedup window apart, the second makes no model
\* mutation, also when the first was itself suppressed.
C1_AnyPairSuppressed ==
    \A i, j \in DOMAIN hist :
        (i < j /\ SameKey(i, j) /\ hist[j].time - hist[i].time < dedup_window)
        => hist[j].wrote = {}

\* C1 amended: of two deliveries with the same event key less than the dedup
\* window apart, the first of which passed the dedup check, the second is
\* suppressed and makes no model mutation.
C1_PairAfterPassedSuppressed ==
    \A i, j \in DOMAIN hist :
        (/\ i < j
         /\ SameKey(i, j)
         /\ Passed(hist[i])
         /\ hist[j].time - hist[i].time < dedup_window)
        => (hist[j].stage = "duplicate" /\ hist[j].wrote = {})

\* a door event that wrote door_opened, and the same payload one second later
C1_Witness ==
    \E i, j \in DOMAIN hist :
        /\ i < j
        /\ SameKey(i, j)
        /\ hist[i].event_tag = "dooropened"
        /\ \E w \in hist[i].wrote : w[3] = "door_opened"
        /\ hist[j].time = hist[i].time + 1
        /\ hist[j].stage = "duplicate"
        /\ Cardinality({k \in DOMAIN hist : \E w \in hist[k].wrote : w[3] = "door_opened"}) = 1

\* C4 as stated: two deliveries with the same key more than the dedup window
\* apart, for a known hub and a resolvable device, both make a model
\* mutation, whatever is delivered in between.
C4_BothMutate ==
    \A i, j \in DOMAIN hist :
        (/\ i < j
         /\ SameKey(i, j)
         /\ DeviceDelivery(hist[j])
         /\ hist[j].time - hist[i].time > dedup_window)
        => (hist[i].wrote # {} /\ hist[j].wrote # {})

\* C4 amended: of two such deliveries the second makes a model mutation
\* whenever no delivery with its key passed the dedup check less than the
\* dedup window before it, and the first whenever it was not itself
\* suppressed; suppressed duplicates in between change nothing.
C4_MutateUnlessRecentlyPassed ==
    \A i, j \in DOMAIN hist :
        (/\ i < j
         /\ SameKey(i, j)
         /\ DeviceDelivery(hist[j])
         /\ hist[j].time - hist[i].time > dedup_window)
        => /\ ~RecentlyPassed(j) => hist[j].wrote # {}
           /\ hist[i].stage # "duplicate" => hist[i].wrote # {}

\* a processed door event, a suppressed duplicate, and the same payload again
\* more than the window after the first: both ends wrote
C4_Witness ==
    \E i, k, j \in DOMAIN hist :
        /\ i < k /\ k < j
        /\ SameKey(i, j) /\ SameKey(i, k)
        /\ DeviceDelivery(hist[j])
        /\ hist[j].time - hist[i].time > dedup_window
        /\ hist[k].stage = "duplicate"
        /\ hist[i].wrote # {}
        /\ hist[j].wrote # {}

\* the time recorded for a key: that of the last delivery with this key that
\* passed the dedup check
LastPassedTime(key) ==
    LET passed == {i \in DOMAIN hist : Passed(hist[i]) /\ hist[i].event_key = key}
    IN  IF passed = {} THEN 0
        ELSE hist[CHOOSE i \in passed : \A k \in passed : k <= i].time

\* C5: a delivery is suppressed exactly when a delivery with its key passed
\* the dedup check less than 5 s before it (at exactly 5 s it is processed);
\* the cache holds for a key the time of the last delivery that passed, so a
\* processed delivery records its time and a suppressed one leaves the
\* recorded time as it was.
C5_DedupDecision ==
    /\ \A j \in DOMAIN hist :
           Keyed(hist[j])
           => (hist[j].stage = "duplicate" <=> RecentlyPassed(j))
    /\ \A key \in DOMAIN recent_events : recent_events[key] = LastPassedTime(key)
    /\ (hist # <<>> /\ Passed(hist[Len(hist)]) /\ hist[Len(hist)].time = now)
       => Get(recent_events, hist[Len(hist)].event_key, 0) = now

\* a delivery processed exactly 5 s after the one before, and a duplicate
\* suppressed after that, the cache still holding the time of the processed one
C5_Witness ==
    \E i, j, k \in DOMAIN hist :
        /\ i < j /\ j < k
        /\ SameKey(i, j) /\ SameKey(j, k)
        /\ Passed(hist[i]) /\ Passed(hist[j])
        /\ hist[j].time = hist[i].time + dedup_window
        /\ hist[k].stage = "duplicate"
        /\ hist[k].time > hist[j].time
        /\ recent_events[hist[k].event_key] = hist[j].time

\* C6: a delivery suppressed as a duplicate reaches no handler: it writes no
\* field, resolves no device, and the step leaves the spaces, the devices,
\* the protection timestamps, the notifications, the fired scenario events,
\* the scheduled refreshes and the model-changed count as they were.
C6_DuplicateChangesNothing ==
    [][(Len(hist') = Len(hist) + 1 /\ Keyed(hist'[Len(hist')])
        /\ \E i \in DOMAIN hist :
              /\ hist[i].event_key = hist'[Len(hist')].event_key
              /\ Passed(hist[i])
              /\ now - hist[i].time < dedup_window)
       => /\ hist'[Len(hist')].wrote = {}
          /\ hist'[Len(hist')].dev = 0
          /\ UNCHANGED <<security_state, online, attributes, last_state_update,
                         notifications, fired, refresh_tasks, updated>>]_vars

\* duplicates of a security event, of a scenario event and of a door event
\* were suppressed after the first of each was notified
C6_Witness ==
    /\ Len(hist) >= 2
    /\ hist[Len(hist)].stage = "duplicate"
    /\ hist[Len(hist)].event_tag = "disarm"
    /\ Len(notifications) = 1
    /\ updated = 1

----------------------------------------------------------------------------
(* Properties of the handlers *)

\* the last delivery that wrote a field of space sp, 0 for none
LastMutation(sp) ==
    LET writers == {j \in DOMAIN hist : hist[j].sp = sp /\ hist[j].wrote # {}}
    IN  IF writers = {} THEN 0 ELSE CHOOSE j \in writers : \A k \in writers : k <= j

\* C2: after every push-derived mutation of a space or of one of its devices
\* the protection timestamp of the hub is the time of that mutation.
C2_EveryMutationMarksHub ==
    \A sp \in Spaces :
        LastMutation(sp) # 0
        => Get(last_state_update, Account[sp].hub_id, 0) = hist[LastMutation(sp)].time

\* C7: a door or tamper event for a resolved device writes true for
\* transition TRIGGERED and false for RECOVERED, whatever its tag's default.
C7_TransitionDecides ==
    \A j \in DOMAIN hist :
        (hist[j].stage = "handled" /\ hist[j].target[2] # 0
         /\ hist[j].transition \in {"TRIGGERED", "RECOVERED"})
        => /\ hist[j].event_tag \in DOMAIN DOOR_EVENTS
              => /\ <<hist[j].sp, hist[j].target[2], "door_opened",
                      hist[j].transition = "TRIGGERED">> \in hist[j].wrote
                 /\ j = Len(hist)
                    => attributes[hist[j].sp][hist[j].target[2]]["door_opened"]
                       = (hist[j].transition = "TRIGGERED")
           /\ hist[j].event_tag \in DOMAIN TAMPER_EVENTS
              => /\ <<hist[j].sp, hist[j].target[2], "tampered",
                      hist[j].transition = "TRIGGERED">> \in hist[j].wrote
                 /\ j = Len(hist)
                    => attributes[hist[j].sp][hist[j].target[2]]["tampered"]
                       = (hist[j].transition = "TRIGGERED")

\* a tag whose default is not-triggered, delivered with transition TRIGGERED,
\* wrote true
C7_Witness ==
    /\ hist # <<>>
    /\ hist[Len(hist)].event_tag = "doorclosed"
    /\ ~DOOR_EVENTS["doorclosed"][2]
    /\ hist[Len(hist)].transition = "TRIGGERED"
    /\ hist[Len(hist)].target = <<1, 2>>
    /\ "door_opened" \in DOMAIN attributes[1][2]
    /\ attributes[1][2]["door_opened"] = TRUE

\* C10: a security event that reaches its handler sets the security state of
\* its space to the state of its tag, unless it is a group event: a group
\* event leaves every security state and protection timestamp as it was and
\* schedules one refresh.
C10_SecurityEvent ==
    [][(/\ Len(hist') = Len(hist) + 1
        /\ hist'[Len(hist')].stage = "handled"
        /\ hist'[Len(hist')].event_tag \in DOMAIN EVENT_TAG_TO_STATE)
       => IF hist'[Len(hist')].event_tag \in {"grouparm", "groupdisarm"}
          THEN /\ security_state' = security_state
               /\ last_state_update' = last_state_update
               /\ refresh_tasks' = refresh_tasks + 1
          ELSE /\ security_state'[hist'[Len(hist')].sp]
                      = EVENT_TAG_TO_STATE[hist'[Len(hist')].event_tag]
               /\ refresh_tasks' = refresh_tasks]_vars

\* a group disarm was handled for an armed space: still armed, unmarked, one
\* refresh scheduled
C10_Witness ==
    /\ hist # <<>>
    /\ hist[Len(hist)].event_tag = "groupdisarm"
    /\ hist[Len(hist)].stage = "handled"
    /\ security_state[hist[Len(hist)].sp] = "armed"
    /\ last_state_update = EmptyDict
    /\ refresh_tasks = 1

----------------------------------------------------------------------------
(* Properties of the protection window *)

\* the last delivery that changed the security state of space sp, 0 for none
LastMark(sp) ==
    LET marks == {j \in DOMAIN hist :
                     \E w \in hist[j].wrote : w[1] = sp /\ w[3] = "security_state"}
    IN  IF marks = {} THEN 0 ELSE CHOOSE j \in marks : \A k \in marks : k <= j

\* C3: with the protection timestamp of a hub set at time T, the hub is
\* reported protected exactly while now - T < 5, and a merge of a snapshot
\* leaves the space and its devices as they were inside the window and sets
\* them from the snapshot once the window has expired.
C3_ProtectionWindow ==
    [][Len(reconciled') = Len(reconciled) + 1
       => \A sp \in Spaces :
             LastMark(sp) # 0
             => /\ is_state_protected(Account[sp].hub_id)
                   <=> now - hist[LastMark(sp)].time < 5
                /\ IF now - hist[LastMark(sp)].time < 5
                   THEN /\ security_state'[sp] = security_state[sp]
                        /\ attributes'[sp] = attributes[sp]
                        /\ online'[sp] = online[sp]
                   ELSE /\ security_state'[sp]
                              = reconciled'[Len(reconciled')].security_state[sp]
                        /\ \A d \in DevicesOf(sp) :
                              attributes'[sp][d]
                              = SnapshotAttributes(reconciled'[Len(reconciled')])]_vars

\* a snapshot saying armed was merged while the first hub was protected by a
\* disarm event: its space is still disarmed and its devices untouched, while
\* the other hub took the snapshot
C3_Witness ==
    /\ reconciled # <<>>
    /\ LastMark(1) # 0
    /\ security_state[1] = "disarmed"
    /\ reconciled[Len(reconciled)].security_state[1] = "armed"
    /\ \A d \in DevicesOf(1) : attributes[1][d] = EmptyDict
    /\ \A d \in DevicesOf(2) :
          attributes[2][d] = SnapshotAttributes(reconciled[Len(reconciled)])

----------------------------------------------------------------------------
(* Properties of the device resolver *)

Least(S) == CHOOSE i \in S : \A k \in S : i <= k

\* the layered procedure: exact id, then the 8-character suffix of a
\* 16-character id, then the exact name; first match wins
Layered(devices, source_name, source_id) ==
    LET exact == {i \in DOMAIN devices : devices[i].id = source_id}
        suffix == {i \in DOMAIN devices :
                      /\ Len(source_id) = 8
                      /\ Len(devices[i].id) = 16
                      /\ EndsWith(devices[i].id, source_id)}
        named == {i \in DOMAIN devices : devices[i].name = source_name}
    IN  IF exact # {} THEN Least(exact)
        ELSE IF suffix # {} THEN Least(suffix)
        ELSE IF named # {} THEN Least(named)
        ELSE 0

Orders(devices) ==
    {p \in [DOMAIN devices -> DOMAIN devices] :
        \A i, j \in DOMAIN devices : i # j => p[i] # p[j]}

Reordered(devices, p) == [i \in DOMAIN devices |-> devices[p[i]]]

\* the device found, as a set: empty for None
Found(devices, source_name, source_id) ==
    {devices[i] : i \in {find_device(devices, source_name, source_id)} \ {0}}

\* the call succeeded through the exact-id step
ByExactId ==
    /\ fd.done /\ fd.result # 0
    /\ fd.devices[fd.result].id = fd.source_id

\* the call succeeded through the name step
ByName ==
    /\ fd.done /\ fd.result # 0
    /\ fd.devices[fd.result].id # fd.source_id
    /\ ~(\E i \in DOMAIN fd.devices :
            /\ Len(fd.source_id) = 8
            /\ Len(fd.devices[i].id) = 16
            /\ EndsWith(fd.devices[i].id, fd.source_id))

SameInEveryOrder ==
    \A p \in Orders(fd.devices) :
        Found(Reordered(fd.devices, p), fd.source_name, fd.source_id)
        = {fd.devices[fd.result]}

\* C9 as stated: a resolution through the exact-id step or the name step
\* returns the same device in every order of the devices, also when several
\* devices carry the same name.
C9_OrderIndependent == (ByExactId \/ ByName) => SameInEveryOrder

\* C9 amended: it returns the same device in every order when it succeeds
\* through the exact-id step, or through the name step with one device only
\* carrying the name.
C9_OrderIndependentUniqueName ==
    (\/ ByExactId
     \/ /\ ByName
        /\ Cardinality({i \in DOMAIN fd.devices :
                           fd.devices[i].name = fd.source_name}) = 1)
    => SameInEveryOrder

\* a name that one device carries found the second device of two
C9_Witness ==
    /\ ByName
    /\ Len(fd.devices) = 2
    /\ fd.result = 2
    /\ fd.devices[1].name # fd.source_name
    /\ SameInEveryOrder

----------------------------------------------------------------------------
(* Properties of single deliveries, stated over the step that makes one *)

\* the step is a delivery to _handle_event
Delivered == Len(hist') = Len(hist) + 1

\* the record of the delivery the step makes
Step == hist'[Len(hist')]

\* the delivery the step makes reached the security handler
SecurityStep ==
    /\ Delivered
    /\ Step.stage = "handled"
    /\ Step.event_tag \in DOMAIN EVENT_TAG_TO_STATE

\* the audit notification the step added
Audit == notifications'[Len(notifications')]

\* C11: every security event that reaches its handler, whether it changes
\* the security state, leaves it as it is or is a group event, adds exactly
\* one audit notification, carrying the state of its tag, a source name and
\* the name of its space; a disarm from Alice against an armed space with no
\* command pending leaves the space disarmed and one notification naming
\* Alice.
C11_AuditOnEverySecurityEvent ==
    [][SecurityStep
       => /\ Len(notifications') = Len(notifications) + 1
          /\ SubSeq(notifications', 1, Len(notifications)) = notifications
          /\ Audit.action = EVENT_TAG_TO_STATE[Step.event_tag]
          /\ Audit.space_name = Account[Step.sp].name
          /\ Audit.source_name
                 \in {SourceName(Unwrap(Step.event_data)), "Home Assistant"}
          /\ (/\ Step.event_tag = "disarm"
              /\ security_state[Step.sp] = "armed"
              /\ pending_ha_action = {})
             => /\ security_state'[Step.sp] = "disarmed"
                /\ Audit.source_name = SourceName(Unwrap(Step.event_data))]_vars

\* an arm event for a space already armed changed nothing and was notified
C11_Witness ==
    /\ hist # <<>>
    /\ hist[Len(hist)].event_tag = "arm"
    /\ hist[Len(hist)].stage = "handled"
    /\ hist[Len(hist)].wrote = {}
    /\ security_state[hist[Len(hist)].sp] = "armed"
    /\ notifications = <<[action |-> "armed", source_name |-> "Alice",
                          space_name |-> "Home"]>>

\* C12: the audit notification of a security event names "Home Assistant"
\* when a command issued from Home Assistant is pending for the hub of the
\* event, and the actor the event reports when none is.
C12_SourceAttribution ==
    [][SecurityStep
       => Audit.source_name
          = IF Account[Step.sp].hub_id \in pending_ha_action
            THEN "Home Assistant"
            ELSE SourceName(Unwrap(Step.event_data))]_vars

\* a disarm reported for Alice while a command was pending for the hub was
\* notified as made by Home Assistant
C12_Witness ==
    /\ hist # <<>>
    /\ hist[Len(hist)].event_tag = "disarm"
    /\ hist[Len(hist)].hub_id \in pending_ha_action
    /\ SourceName(Unwrap(hist[Len(hist)].event_data)) = "Alice"
    /\ notifications # <<>>
    /\ notifications[Len(notifications)].source_name = "Home Assistant"

----------------------------------------------------------------------------
(* Properties of the deliveries that fail *)

KnownTags == DOMAIN EVENT_TAG_TO_STATE \cup DeviceTags \cup SCENARIO_EVENTS

\* the delivery was dropped, raised an exception, or reached a handler that
\* found nothing to act on
Failing(h) ==
    \/ h.stage \in {"malformed", "tag_error", "unknown_hub", "handler_error", "raised"}
    \/ h.stage = "handled" /\ h.event_tag \notin KnownTags
    \/ h.stage = "handled" /\ h.event_tag \in DeviceTags /\ h.dev = 0

\* the dedup cache answers after the step as before it for every key but
\* the one the delivery recorded: an entry is as it was, or was dropped when
\* it could no longer suppress anything
CacheKeptBut(key) ==
    \A k \in (DOMAIN recent_events \cup DOMAIN recent_events') \ {key} :
        /\ k \in DOMAIN recent_events
        /\ IF k \in DOMAIN recent_events'
           THEN recent_events'[k] = recent_events[k]
           ELSE now - recent_events[k] >= dedup_window

\* C13: no delivery leaves _handle_event by an exception, and a delivery that
\* fails (malformed payload, unknown tag, unknown hub, unresolved device, or
\* an exception raised on the way) leaves the spaces, the devices, the
\* protection timestamps, the pending commands and the notifications as they
\* were and touches no entry of the dedup cache but that of its own key, so
\* that a next delivery is processed as it would have been before, unless
\* it repeats the key the failing delivery recorded.
C13_FaultIsolation ==
    [][Delivered
       => /\ Step.stage # "raised"
          /\ Failing(Step)
             => /\ UNCHANGED <<now, security_state, online, attributes,
                               last_state_update, pending_ha_action,
                               notifications, fired, refresh_tasks>>
                /\ IF Keyed(Step)
                   THEN CacheKeptBut(Step.event_key)
                   ELSE recent_events' = recent_events]_vars

\* a delivery whose handler raised, another whose tag was null, and after
\* them a door event that was processed and wrote its field
C13_Witness ==
    \E i, j \in DOMAIN hist :
        /\ i < j
        /\ hist[i].stage \in {"handler_error", "tag_error"}
        /\ hist[j].stage = "handled"
        /\ hist[j].event_tag = "doorclosed"
        /\ hist[j].wrote # {}
        /\ hist[j].time = hist[i].time

\* the payload of the delivery has no eventTag or no hubId, or an empty one
LacksTagOrHub(event_data) ==
    \/ Get(Unwrap(event_data), "eventTag", "") = ""
    \/ Get(Unwrap(event_data), "hubId", "") = ""

\* C14: a payload whose eventTag or hubId is absent or empty is dropped: the
\* dedup cache, the spaces, the devices, the protection timestamps, the
\* audit and scenario notifications, the scheduled refreshes and the
\* model-changed count are left as they were.
C14_MalformedDropped ==
    [][(Delivered /\ LacksTagOrHub(Step.event_data))
       => /\ Step.stage = "malformed"
          /\ UNCHANGED <<recent_events, security_state, online, attributes,
                         last_state_update, notifications, fired,
                         refresh_tasks, updated>>]_vars

\* an arm event with an empty hubId was dropped
C14_Witness ==
    /\ hist # <<>>
    /\ hist[Len(hist)].event_data = [eventTag |-> "arm", hubId |-> ""]
    /\ hist[Len(hist)].stage = "malformed"
    /\ recent_events = EmptyDict
    /\ notifications = <<>>
    /\ updated = 0

\* the payload names a tag of no category table, a hub of no space, or, for
\* a device category and a known hub, a source no device of the space
\* matches by id, by suffix or by name
Unresolvable(event_data) ==
    LET event == Unwrap(event_data)
        tag == Lower(Get(event, "eventTag", ""))
        hub == Get(event, "hubId", "")
    IN  /\ ~LacksTagOrHub(event_data)
        /\ tag # None
        /\ \/ tag \notin KnownTags
           \/ \A sp \in Spaces : Account[sp].hub_id # hub
           \/ /\ tag \in DeviceTags
              /\ \E sp \in Spaces :
                    /\ Account[sp].hub_id = hub
                    /\ Layered(Account[sp].devices, SourceName(event),
                               SourceId(event)) = 0

\* C15: an event of an unknown tag, for an unknown hub, or from a source
\* that resolves to no device changes no field of any space or device, and
\* its delivery raises no exception.
C15_UnresolvableChangesNothing ==
    [][(Delivered /\ Unresolvable(Step.event_data))
       => /\ Step.stage \in {"duplicate", "unknown_hub", "handled"}
          /\ Step.wrote = {}
          /\ UNCHANGED <<security_state, online, attributes,
                         last_state_update>>]_vars

\* a leak event from a source that is no device of its space was handled and
\* wrote nothing
C15_Witness ==
    /\ hist # <<>>
    /\ hist[Len(hist)].event_tag = "leakdetected"
    /\ hist[Len(hist)].stage = "handled"
    /\ hist[Len(hist)].target = <<1, 0>>
    /\ \A sp \in Spaces : \A d \in DevicesOf(sp) : attributes[sp][d] = EmptyDict

\* C16: a delivery that changes a field of a space or of a device sends one
\* model-changed notification within the same call.
C16_MutationNotified ==
    [][(/\ Delivered
        /\ \/ security_state' # security_state
           \/ online' # online
           \/ attributes' # attributes)
       => updated' = updated + 1]_vars

\* a device went offline and the model-changed notification was sent
C16_Witness ==
    /\ hist # <<>>
    /\ hist[Len(hist)].event_tag = "deviceoffline"
    /\ \E sp \in Spaces : \E d \in DevicesOf(sp) : ~online[sp][d]
    /\ updated = 1

----------------------------------------------------------------------------
(* Properties of the cleanup of the dedup cache *)

\* C17 as stated: after every dedup decision, to suppress as well as to
\* process, the dedup cache holds no entry older than the retention window
\* of 60 s.
C17_NoStaleAfterDecision ==
    [][(Delivered /\ Keyed(Step))
       => \A k \in DOMAIN recent_events' :
             now - recent_events'[k] <= RetentionWindow]_vars

\* C17 amended: after every decision to process, the dedup cache holds no
\* entry as old as the retention window of 60 s or older; a decision to
\* suppress leaves the cache as it was, stale entries included.
C17_NoStaleAfterProcess ==
    [][Delivered
       => /\ Passed(Step)
             => \A k \in DOMAIN recent_events' :
                   now - recent_events'[k] < RetentionWindow
          /\ Step.stage = "duplicate" => recent_events' = recent_events]_vars

\* a delivery processed exactly 60 s after another dropped the entry of that
\* one and recorded its own
C17_Witness ==
    \E i, j \in DOMAIN hist :
        /\ i < j /\ j = Len(hist)
        /\ Passed(hist[i])
        /\ Passed(hist[j])
        /\ hist[j].time - hist[i].time = RetentionWindow
        /\ hist[i].event_key \notin DOMAIN recent_events
        /\ hist[j].event_key \in DOMAIN recent_events

----------------------------------------------------------------------------
(* Properties of the device handlers' writes *)

\* the delivery the step makes reached a device handler that resolved a device
DeviceStep ==
    /\ Delivered
    /\ Step.stage = "handled"
    /\ Step.event_tag \in DeviceTags
    /\ Step.dev # 0

\* the field named for the category of a tag
NamedField(event_tag) ==
    CASE event_tag \in {"dooropened", "doorclosed"}      -> "door_opened"
      [] event_tag = "motiondetected"                    -> "motion_detected"
      [] event_tag = "smokedetected"                     -> "smoke_detected"
      [] event_tag = "temperaturealarm"                  -> "temperature_alert"
      [] event_tag = "codetected"                        -> "co_detected"
      [] event_tag = "leakdetected"                      -> "leak_detected"
      [] event_tag = "glassbreak"                        -> "glass_break_detected"
      [] event_tag \in {"tamperopened", "tamperclosed"}  -> "tampered"
      [] event_tag \in {"deviceoffline", "deviceonline"} -> "online"
      [] event_tag = "lowbattery"                        -> "low_battery"
      [] event_tag = "externalpowerlost"                 -> "external_power_lost"
      [] event_tag \in {"relayon", "relayoff"}           -> "is_on"

\* the timestamp attribute the door and motion handlers set beside the field
TimestampField(event_tag) ==
    IF event_tag \in {"dooropened", "doorclosed"} THEN {"door_opened_at"}
    ELSE IF event_tag = "motiondetected" THEN {"motion_detected_at"}
    ELSE {}

\* the attributes of a device the step set or changed
ChangedKeys(sp, d) ==
    {k \in DOMAIN attributes'[sp][d] :
        \/ k \notin DOMAIN attributes[sp][d]
        \/ attributes'[sp][d][k] # attributes[sp][d][k]}

\* the step wrote the given fields of the resolved device and nothing else:
\* no other attribute of the device, no other device, no security state
WroteOnly(fields) ==
    /\ {w[3] : w \in Step.wrote} = fields
    /\ \A w \in Step.wrote : w[1] = Step.sp /\ w[2] = Step.dev
    /\ ChangedKeys(Step.sp, Step.dev) \subseteq fields \ {"online"}
    /\ DOMAIN attributes[Step.sp][Step.dev] \subseteq DOMAIN attributes'[Step.sp][Step.dev]
    /\ online'[Step.sp][Step.dev] # online[Step.sp][Step.dev] => "online" \in fields
    /\ \A sp \in Spaces : \A d \in DevicesOf(sp) :
          <<sp, d>> # <<Step.sp, Step.dev>>
          => attributes'[sp][d] = attributes[sp][d] /\ online'[sp][d] = online[sp][d]
    /\ security_state' = security_state

\* C18 as stated: a processed device event writes the one field named for
\* its category on the resolved device and nothing else.
C18_OneFieldOnly ==
    [][DeviceStep => WroteOnly({NamedField(Step.event_tag)})]_vars

\* C18 amended: a processed device event writes the field named for its
\* category on the resolved device, a door or motion event also the
\* timestamp attribute of that field (door_opened_at, motion_detected_at),
\* and nothing else.
C18_FieldAndTimestampOnly ==
    [][DeviceStep
       => WroteOnly({NamedField(Step.event_tag)}
                    \cup TimestampField(Step.event_tag))]_vars

\* a motion event set motion_detected and motion_detected_at of its device
\* and left the other device and the security states alone
C18_Witness ==
    /\ hist # <<>>
    /\ hist[Len(hist)].event_tag = "motiondetected"
    /\ DOMAIN attributes[1][1] = {"motion_detected", "motion_detected_at"}
    /\ attributes[1][2] = EmptyDict
    /\ security_state = [sp \in Spaces |-> "armed"]

\* a delivery before the step wrote door_opened of the device
DoorReported(sp, d) ==
    \E j \in DOMAIN hist :
        \E w \in hist[j].wrote : w[1] = sp /\ w[2] = d /\ w[3] = "door_opened"

\* the step is a processed door event for the device
DoorStepFor(sp, d) ==
    /\ DeviceStep
    /\ Step.event_tag \in DOMAIN DOOR_EVENTS
    /\ Step.sp = sp /\ Step.dev = d

\* C19: under push events the attributes of a device only gain keys or have
\* keys overwritten; a handler sets its attribute also on a device that
\* never reported it; the door sensor reads false before the first door
\* event of its device, the value written by a door event after it, and
\* keeps it until the next.
C19_AttributesOnlyGrow ==
    [][/\ \A sp \in Spaces : \A d \in DevicesOf(sp) :
             /\ DOMAIN attributes[sp][d] \subseteq DOMAIN attributes'[sp][d]
             /\ ~DoorReported(sp, d) => value_fn(attributes[sp][d]) = FALSE
             /\ IF DoorStepFor(sp, d)
                THEN /\ "door_opened" \in DOMAIN attributes'[sp][d]
                     /\ value_fn(attributes'[sp][d]) = (Step.transition = "TRIGGERED")
                ELSE value_fn(attributes'[sp][d]) = value_fn(attributes[sp][d])
       /\ (DeviceStep /\ NamedField(Step.event_tag) # "online")
          => /\ NamedField(Step.event_tag) \in DOMAIN attributes'[Step.sp][Step.dev]
             /\ \A k \in DOMAIN attributes[Step.sp][Step.dev] \
                          ({NamedField(Step.event_tag)} \cup TimestampField(Step.event_tag)) :
                   attributes'[Step.sp][Step.dev][k] = attributes[Step.sp][Step.dev][k]]_vars

\* the door opened, then the battery ran low: the device that had reported
\* neither key holds both, and its door sensor reads true
C19_Witness ==
    /\ Len(hist) = 2
    /\ hist[1].event_tag = "dooropened"
    /\ hist[2].event_tag = "lowbattery"
    /\ DOMAIN attributes[1][2] = {"door_opened", "door_opened_at", "low_battery"}
    /\ value_fn(attributes[1][2])
    /\ ~value_fn(attributes[1][1])

----------------------------------------------------------------------------
(* Properties of the scenario handler *)

\* the delivery the step makes reached the scenario handler
ScenarioStep ==
    /\ Delivered
    /\ Step.stage = "handled"
    /\ Step.event_tag \in SCENARIO_EVENTS

\* the positions of the entries of type INITIATOR_INFO
InitiatorEntries(data) ==
    {i \in DOMAIN data : Get(data[i], "additionalDataV2Type", "") = "INITIATOR_INFO"}

\* the scenario-triggered notification a payload calls for, as a sequence:
\* empty when the first entry of type INITIATOR_INFO is missing or unnamed
ScenarioNotification(event, event_tag, sp) ==
    LET data == Get(event, "additionalDataV2", <<>>)
        entries == InitiatorEntries(data)
    IN  IF entries = {} THEN <<>>
        ELSE IF Get(data[Least(entries)], "objectName", "") = "" THEN <<>>
        ELSE <<[scenario_name |-> data[Least(entries)].objectName,
                initiator_type |-> Get(data[Least(entries)], "objectType", None),
                target_name |-> Get(event, "sourceObjectName", ""),
                event_tag |-> event_tag,
                space_name |-> Account[sp].name]>>

\* C20: a scenario event changes no field of any device or space; it fires
\* one scenario-triggered notification carrying the scenario name and the
\* initiator type of the first additionalDataV2 entry of type
\* INITIATOR_INFO, the target name, the tag and the space name, and fires
\* none when there is no such entry or that entry has no objectName.
C20_ScenarioNotifiesOnly ==
    [][ScenarioStep
       => /\ UNCHANGED <<security_state, online, attributes,
                         last_state_update, notifications, refresh_tasks>>
          /\ Step.wrote = {}
          /\ fired' = fired \o ScenarioNotification(Unwrap(Step.event_data),
                                                    Step.event_tag, Step.sp)]_vars

\* a scenario event whose initiator entry follows an entry of another type
\* fired one notification naming the initiator
C20_Witness ==
    /\ hist # <<>>
    /\ hist[Len(hist)].event_tag = "relayonbyscenario"
    /\ hist[Len(hist)].event_data.additionalDataV2 = InitiatorInfo
    /\ fired = <<[scenario_name |-> "Button", initiator_type |-> "BUTTON",
                  target_name |-> "Lamp", event_tag |-> "relayonbyscenario",
                  space_name |-> "Home"]>>
    /\ \A sp \in Spaces : \A d \in DevicesOf(sp) : attributes[sp][d] = EmptyDict

----------------------------------------------------------------------------
(* C26 *)

\* the event code of a payload is empty, absent or unknown to the parser
NoUsableCode(event_data) ==
    DOMAIN parse_event_code(Get(Unwrap(event_data), "eventCode", "")) = {}

\* C26: every transition is TRIGGERED or RECOVERED, and a door or tamper
\* event without a usable event code that reaches a resolved device has
\* transition TRIGGERED and writes true to door_opened / tampered, also when
\* the default of its tag is not-triggered.
C26_NoCodeWritesTrue ==
    \A j \in DOMAIN hist :
        /\ Keyed(hist[j]) => hist[j].transition \in {"TRIGGERED", "RECOVERED"}
        /\ (/\ hist[j].stage = "handled"
            /\ hist[j].target[2] # 0
            /\ NoUsableCode(hist[j].event_data))
           => /\ hist[j].transition = "TRIGGERED"
              /\ hist[j].event_tag \in DOMAIN DOOR_EVENTS
                 => /\ <<hist[j].sp, hist[j].target[2], "door_opened", TRUE>>
                       \in hist[j].wrote
                    /\ j = Len(hist)
                       => attributes[hist[j].sp][hist[j].target[2]]["door_opened"] = TRUE
              /\ hist[j].event_tag \in DOMAIN TAMPER_EVENTS
                 => /\ <<hist[j].sp, hist[j].target[2], "tampered", TRUE>>
                       \in hist[j].wrote
                    /\ j = Len(hist)
                       => attributes[hist[j].sp][hist[j].target[2]]["tampered"] = TRUE

\* a tamperclosed event with a code the parser does not know wrote true to
\* tampered, although the default of its tag is not-triggered
C26_Witness ==
    /\ hist # <<>>
    /\ hist[Len(hist)].event_tag = "tamperclosed"
    /\ ~TAMPER_EVENTS["tamperclosed"][2]
    /\ Get(Unwrap(hist[Len(hist)].event_data), "eventCode", "") = "X_99"
    /\ hist[Len(hist)].stage = "handled"
    /\ hist[Len(hist)].target = <<1, 2>>
    /\ <<1, 2, "tampered", TRUE>> \in hist[Len(hist)].wrote
    /\ attributes[1][2]["tampered"] = TRUE

----------------------------------------------------------------------------
(* C27 *)

\* the handler of the payload raises: the resolver takes the length of a
\* numeric source id that is no key of the devices of the space
HandlerRaises(event_data) ==
    LET event == Unwrap(event_data)
        tag == Get(event, "eventTag", "")
    IN  /\ tag # None
        /\ Lower(tag) \in DeviceTags
        /\ \E sp \in Spaces :
              /\ Account[sp].hub_id = Get(event, "hubId", "")
              /\ IsNumber(SourceId(event))
              /\ \A d \in DevicesOf(sp) : Account[sp].devices[d].id # SourceId(event)

\* delivery j is well-formed, passes the dedup check, names a known hub and
\* its handler returns without an exception
Completes(j) ==
    /\ Get(Unwrap(hist[j].event_data), "eventTag", "") # None
    /\ ~LacksTagOrHub(hist[j].event_data)
    /\ ~RecentlyPassed(j)
    /\ \E sp \in Spaces :
          Account[sp].hub_id = Get(Unwrap(hist[j].event_data), "hubId", "")
    /\ ~HandlerRaises(hist[j].event_data)

\* C27: the model-changed notification is sent once for each delivery that
\* is well-formed, passes the dedup check, names a known hub and whose
\* handler returns without an exception, whether or not a field was
\* written, and for no other delivery.
C27_NotifiedIffCompleted ==
    /\ updated = Cardinality({j \in DOMAIN hist : Completes(j)})
    /\ \A j \in DOMAIN hist : Completes(j) <=> hist[j].stage = "handled"

\* an event for a device no one knows and then a group event: neither wrote
\* a field and both sent the model-changed notification
C27_Witness ==
    /\ Len(hist) = 2
    /\ hist[1].event_tag = "doorclosed"
    /\ hist[1].target = <<1, 0>>
    /\ hist[2].event_tag = "grouparm"
    /\ hist[1].wrote = {}
    /\ hist[2].wrote = {}
    /\ updated = 2

----------------------------------------------------------------------------
(* C25 *)

\* a delivery for another hub passed the dedup check with the key of this
\* step less than the dedup window ago
PassedForOtherHub ==
    \E i \in DOMAIN hist :
        /\ Passed(hist[i])
        /\ hist[i].event_key = Step.event_key
        /\ hist[i].hub_id # Step.hub_id
        /\ now - hist[i].time < dedup_window

\* C25: the dedup cache is one cache for all hubs and its key holds no hub:
\* a delivery whose (sourceId, tag, transition) is that of a delivery
\* processed for another hub less than 5 s earlier is suppressed and leaves
\* its own space, like everything else, unchanged.
C25_SuppressedAcrossHubs ==
    [][(Delivered /\ Keyed(Step) /\ PassedForOtherHub)
       => /\ Step.stage = "duplicate"
          /\ UNCHANGED <<recent_events, security_state, online, attributes,
                         last_state_update, notifications, fired,
                         refresh_tasks, updated>>]_vars

\* hub H1 was disarmed, and the disarm event of hub H2 that followed within
\* the window was suppressed: the space of H2 is still armed
C25_Witness ==
    /\ Len(hist) = 2
    /\ hist[1].hub_id = "H1"
    /\ hist[1].stage = "handled"
    /\ hist[2].hub_id = "H2"
    /\ hist[2].event_tag = "disarm"
    /\ hist[2].stage = "duplicate"
    /\ hist[2].event_key = hist[1].event_key
    /\ security_state[1] = "disarmed"
    /\ security_state[2] = "armed"

----------------------------------------------------------------------------
(* C28 *)

\* the coordinator created by the latest setup in log that returned True
LatestSetup(log) ==
    LET done == {k \in DOMAIN log : log[k].op = "setup" /\ log[k].outcome = "ok"}
    IN  IF done = {} THEN 0
        ELSE log[CHOOSE k \in done : \A i \in done : i <= k].coordinator

\* the entries that are loaded
Loaded(h) == {e \in Entries : h.state[e] = "loaded"}

\* C28: the two services are removed only by the unload that leaves no
\* entry loaded, and a service call that reaches a coordinator reaches the
\* one created by the latest setup that completed, whether or not its entry
\* is still loaded.
C28_ServicesAcrossEntries ==
    [][/\ (\E name \in DOMAIN NoServices :
              hass.services[name] # 0 /\ hass'.services[name] = 0)
          => /\ hass'.log[Len(hass'.log)].op = "unload"
             /\ Loaded(hass') = {}
             /\ hass'.services = NoServices
       /\ (/\ Len(hass'.log) = Len(hass.log) + 1
           /\ hass'.log[Len(hass'.log)].op = "call"
           /\ hass'.log[Len(hass'.log)].to # 0)
          => hass'.log[Len(hass'.log)].to = LatestSetup(hass.log)]_vars

\* e1 then e2 were set up and e2 was unloaded: a service call went to the
\* coordinator of e2, whose API is closed, while e1 is the loaded entry
C28_Witness ==
    /\ hass.log # <<>>
    /\ hass.log[Len(hass.log)].op = "call"
    /\ hass.log[Len(hass.log)].to \in hass.closed
    /\ Loaded(hass) = {"e1"}
    /\ hass.data["e1"] # hass.log[Len(hass.log)].to

----------------------------------------------------------------------------
(* C23 *)

\* the first candidate that is not empty; an empty value when all are
FirstNonEmpty(candidates) ==
    LET filled == {i \in DOMAIN candidates : ~Falsy(candidates[i])}
    IN  IF filled = {} THEN ""
        ELSE candidates[CHOOSE i \in filled : \A k \in filled : i <= k]

\* the field of a nested object of the payload, None when the object or the
\* field is absent
Nested(event_data, object, field) ==
    Get(Get(Unwrap(event_data), object, EmptyDict), field, None)

\* a flattened field of the payload, None when absent
Flat(event_data, field) == Get(Unwrap(event_data), field, None)

\* the result is the first candidate that is not empty, and is empty when
\* every candidate is
IsFirstNonEmpty(result, candidates) ==
    IF \E i \in DOMAIN candidates : ~Falsy(candidates[i])
    THEN result = FirstNonEmpty(candidates)
    ELSE Falsy(result)

\* C23: sourceName, sourceId and sourceType are each the first non-empty
\* candidate of their own list (device object, source object, flattened
\* fields, in this order), in the nested and in the flat payload shape,
\* whatever the other fields hold.
C23_FieldsIndependent ==
    nz.done
    => /\ IsFirstNonEmpty(nz.source_name,
                          <<Nested(nz.event_data, "device", "name"),
                            Nested(nz.event_data, "source", "name"),
                            Flat(nz.event_data, "sourceObjectName"),
                            Flat(nz.event_data, "sourceName")>>)
       /\ IsFirstNonEmpty(nz.source_id,
                          <<Nested(nz.event_data, "device", "id"),
                            Flat(nz.event_data, "sourceObjectId"),
                            Flat(nz.event_data, "deviceId")>>)
       /\ IsFirstNonEmpty(nz.source_type,
                          <<Nested(nz.event_data, "device", "type"),
                            Nested(nz.event_data, "source", "type"),
                            Flat(nz.event_data, "sourceObjectType"),
                            Flat(nz.event_data, "sourceType")>>)

\* a nested payload whose device object has a name and neither id nor type:
\* the name came from the device object, the id from deviceId and the type
\* from the source object
C23_Witness ==
    /\ nz.done
    /\ "event" \in DOMAIN nz.event_data
    /\ Nested(nz.event_data, "device", "id") = None
    /\ Nested(nz.event_data, "device", "type") = ""
    /\ Flat(nz.event_data, "sourceObjectId") = None
    /\ nz.source_name = "device.name"
    /\ nz.source_id = "deviceId"
    /\ nz.source_type = "source.type"

----------------------------------------------------------------------------
(* C24 *)

\* the payload of this step was delivered less than the dedup window ago,
\* passed the dedup check and was then dropped or found nothing to act on
RepeatsDropped ==
    \E i \in DOMAIN hist :
        /\ hist[i].event_data = Step.event_data
        /\ Passed(hist[i])
        /\ Failing(hist[i])
        /\ now - hist[i].time < dedup_window

\* C24: a delivery that passes the dedup check records its key at once,
\* also when it is then dropped (unknown hub, unresolved device, unknown
\* tag, exception in its handler); the same delivery within the next 5 s is
\* suppressed and changes nothing, also when its device has become known
\* in between.
C24_RecordedBeforeLookup ==
    [][Delivered
       => /\ Passed(Step)
             => /\ Step.event_key \in DOMAIN recent_events'
                /\ recent_events'[Step.event_key] = now
          /\ RepeatsDropped
             => /\ Step.stage = "duplicate"
                /\ UNCHANGED <<recent_events, security_state, online, attributes,
                               last_state_update, notifications, fired,
                               refresh_tasks, updated>>]_vars

\* a door event of the garage device found no device; a snapshot then made
\* the device known; the same event, delivered again within the window and
\* now resolvable, was suppressed and the door of the garage is not open
C24_Witness ==
    /\ Len(hist) = 2
    /\ hist[1].stage = "handled"
    /\ hist[1].target = <<1, 0>>
    /\ hist[2].event_data = hist[1].event_data
    /\ hist[2].target = <<1, 3>>
    /\ hist[2].stage = "duplicate"
    /\ reconciled # <<>>
    /\ Get(attributes[1][3], "door_opened", FALSE) = FALSE

----------------------------------------------------------------------------
(* C22 *)

\* a group event was processed for the space
GroupEventFor(sp) ==
    \E j \in DOMAIN hist :
        /\ hist[j].stage = "handled"
        /\ is_group_event(hist[j].event_tag)
        /\ hist[j].sp = sp

\* C22: when a refresh scheduled by a group event completes, the security
\* state of the space of that event is the one of the snapshot the refresh
\* merged, also when the hub was marked protected shortly before and when
\* other events arrived in between.
C22_RefreshConverges ==
    [][(refresh_tasks' = refresh_tasks - 1)
       => \A sp \in Spaces :
             GroupEventFor(sp)
             => security_state'[sp]
                = reconciled'[Len(reconciled')].security_state[sp]]_vars

----------------------------------------------------------------------------
(* C21 *)

\* C21: from the dedup check of a call of _handle_event to its return every
\* step is a step of that call: no snapshot is merged, no refresh runs and
\* no other delivery begins in between, and when the call returns the
\* spaces, the devices and the protection timestamps are those the call
\* computed from the model it saw at its dedup check.
C21_SingleUnit ==
    [][/\ call.pc # "idle"
          => /\ call' # call
             /\ call'.pc # "idle" => call'.event_data = call.event_data
             /\ reconciled' = reconciled
             /\ refresh_tasks' >= refresh_tasks
       /\ (call.pc = "written" /\ call'.pc = "idle")
          => /\ security_state' = call.o.m.security_state
             /\ online' = call.o.m.online
             /\ attributes' = call.o.m.attributes
             /\ last_state_update' = call.o.m.last_state_update]_vars

\* a disarm event has written the state of its space and has not yet marked
\* the hub, while a refresh scheduled by an earlier group event is waiting
\* for the loop
C21_Witness ==
    /\ call.pc = "written"
    /\ call.o.event_tag = "disarm"
    /\ security_state[1] = "disarmed"
    /\ "H1" \notin DOMAIN last_state_update
    /\ refresh_tasks > 0

====
